---- MODULE Spec2Model ----
(***************************************************************************)
(* Model of rt's asynchronous external-job supervisor: the encoder slot    *)
(* (src/app/ffmpeg.rs, src/app/editor.rs), the downloader slot and the     *)
(* quality-probe slot (src/app/downloader.rs), the per-slot ToolOutput     *)
(* (src/app/tool_output.rs) and the tick of the event loop                 *)
(* (src/app/mod.rs, src/main.rs).                                          *)
(*                                                                         *)
(* The main thread runs one handler at a time (tick, a key handler); a     *)
(* handler is one action.  The child processes, the two reader threads of  *)
(* a job and the probe thread run concurrently and take their own steps.   *)
(***************************************************************************)
EXTENDS Integers, Sequences, FiniteSets, TLC

\* ---------------------------------------------------------------- bounds
\* Jobs (children spawned by start_ffmpeg_job / start_downloader_job) per run.
MaxJobs == 1
\* Bytes the children write, all jobs and streams together.
MaxBytes == 3
\* Kill requests per run.
MaxKills == 2
\* Failures of the environment per run: a failed status poll, kill, spawn,
\* pipe read, write of the run log, refresh of the file browser, resolution of
\* the output name, or quality probe.
MaxFaults == 1
\* Quality probes started per run.
MaxProbes == 1
\* Lines a tool appends to a ToolOutput in a session at the output pane.
MaxAppends == 3
\* Lines the user scrolls away from the bottom, or from the top, of a ToolOutput.
MaxScrollBack == 14
\* The longest byte sequence a child writes in the assembling session.
MaxInput == 3
\* The most lines under the header of a short probe transcript.
MaxRows == 2
\* files on the disk next_available_output_path looks at
MaxFiles == 2
\* calls of next_available_output_path in one session
MaxCalls == 3

\* ------------------------------------------------------------- constants
MAX_LINES == 20000
PAGE_STEP == 12
READ_BUF == 4096
DOWNLOADER_OPTION_COUNT == 3
SpinnerFrames == <<"|", "/", "-", "\\">>
\* What a tool writes to each of its streams, over and over and as far as it
\* gets: "a\nb".  The lines of one stream differ, so their order shows.
ToolScript == <<97, 10, 98>>
Streams == {"stdout", "stderr"}
JobSlots == {"editor", "downloader"}
RightTabs == {"Editor", "Downloader"}
None == [none |-> TRUE]

\* ------------------------------------------------------------ ToolOutput
\* A line of a ToolOutput: the text is kept structured (kind, stream prefix,
\* decoded text, fixed message) instead of one formatted string.
CommandLine(cmd) == [kind |-> "$", stream |-> "", text |-> <<>>, msg |-> cmd]
Message(m) == [kind |-> "message", stream |-> "", text |-> <<>>, msg |-> m]
Prefixed(prefix, text) == [kind |-> "prefixed", stream |-> prefix, text |-> text, msg |-> ""]
PrefixedMessage(prefix, m) == [kind |-> "prefixed", stream |-> prefix, text |-> <<>>, msg |-> m]

SatSub(a, b) == IF a >= b THEN a - b ELSE 0
Min(a, b) == IF a <= b THEN a ELSE b

ToolOutputEmpty ==
  [lines |-> <<>>, scroll |-> 0, last_max_scroll_top |-> 0, follow_tail |-> TRUE]

\* Defect: the header of the new job is put after what the ToolOutput holds.
begin_stream_keeping_lines(out, command_line, streaming_message) ==
  [out EXCEPT !.lines = @ \o <<CommandLine(command_line), Message(streaming_message)>>,
              !.scroll = Len(out.lines) + 1,
              !.follow_tail = TRUE]

begin_stream(out, command_line, streaming_message) ==
  [out EXCEPT !.lines = <<CommandLine(command_line), Message(streaming_message)>>,
              !.scroll = 1,
              !.follow_tail = TRUE]

\* Defect: the failure is appended to what the ToolOutput holds.
replace_with_command_error_appending(out, command_line, error_message) ==
  [out EXCEPT !.lines = @ \o <<CommandLine(command_line), Message(error_message)>>,
              !.scroll = 0,
              !.follow_tail = TRUE]

replace_with_command_error(out, command_line, error_message) ==
  [out EXCEPT !.lines = <<CommandLine(command_line), Message(error_message)>>,
              !.scroll = 0,
              !.follow_tail = TRUE]

\* Defect: the lines over the cap are cut from the end.
trim_keeping_oldest_lines(out) ==
  IF Len(out.lines) <= MAX_LINES
  THEN out
  ELSE LET overflow == Len(out.lines) - MAX_LINES
       IN [out EXCEPT !.lines = SubSeq(out.lines, 1, MAX_LINES),
                      !.scroll = SatSub(out.scroll, overflow)]

\* Defect: the scroll is left where it was when lines are dropped.
trim_without_scroll_shift(out) ==
  IF Len(out.lines) <= MAX_LINES
  THEN out
  ELSE [out EXCEPT !.lines = SubSeq(out.lines, Len(out.lines) - MAX_LINES + 1,
                                    Len(out.lines))]

trim_old_lines_if_needed(out) ==
  IF Len(out.lines) <= MAX_LINES
  THEN out
  ELSE LET overflow == Len(out.lines) - MAX_LINES
       IN [out EXCEPT !.lines = SubSeq(out.lines, overflow + 1, Len(out.lines)),
                      !.scroll = SatSub(out.scroll, overflow)]

\* Defect: the append moves the scroll to the last line whether or not the
\* pane follows the tail.
append_line_always_to_tail(out, line) ==
  LET pushed == [out EXCEPT !.lines = Append(out.lines, line)]
      trimmed == trim_old_lines_if_needed(pushed)
  IN [trimmed EXCEPT !.scroll = SatSub(Len(trimmed.lines), 1)]

append_line(out, line) ==
  LET pushed == [out EXCEPT !.lines = Append(out.lines, line)]
      trimmed == trim_old_lines_if_needed(pushed)
  IN IF trimmed.follow_tail
     THEN [trimmed EXCEPT !.scroll = SatSub(Len(trimmed.lines), 1)]
     ELSE trimmed

\* What append_stream_line is handed as `line`: decoded text of the stream, or
\* the formatted reader error.
TextLine(text) == [text |-> text, msg |-> ""]
ReaderErrorLine == [text |-> <<>>, msg |-> "reader error: <error>"]

append_prefixed(out, prefix, line) ==
  append_line(out, [kind |-> "prefixed", stream |-> prefix, text |-> line.text, msg |-> line.msg])

\* ------------------------------------------------ Chunk-to-Line Assembler
IsCont(b) == b >= 128 /\ b <= 191
\* String::from_utf8_lossy on bytes below 0xE0: ASCII, two-byte sequences,
\* U+FFFD for a byte that starts or continues no valid sequence.
RECURSIVE Utf8Lossy(_)
Utf8Lossy(bytes) ==
  IF bytes = <<>> THEN <<>>
  ELSE LET b == Head(bytes)
           rest == Tail(bytes)
       IN IF b < 128 THEN <<b>> \o Utf8Lossy(rest)
          ELSE IF b >= 194 /\ b <= 223 /\ rest # <<>> /\ IsCont(Head(rest))
               THEN <<(b - 192) * 64 + (Head(rest) - 128)>> \o Utf8Lossy(Tail(rest))
               ELSE <<65533>> \o Utf8Lossy(rest)

IsDelimiter(b) == b = 10 \/ b = 13

RECURSIVE TrimEndDelimiters(_)
TrimEndDelimiters(s) ==
  IF s # <<>> /\ IsDelimiter(s[Len(s)])
  THEN TrimEndDelimiters(SubSeq(s, 1, Len(s) - 1))
  ELSE s

\* Defect: an empty pending buffer is flushed as an empty line.
flush_pending_line_also_empty(pending) == <<TrimEndDelimiters(Utf8Lossy(pending))>>

\* flush_pending_line: the line it returns (<<>> for None, <<line>> for Some);
\* the pending buffer is empty afterwards in every case.
flush_pending_line(pending) ==
  IF pending = <<>> THEN <<>>
  ELSE LET line == TrimEndDelimiters(Utf8Lossy(pending))
       IN IF line = <<>> THEN <<>> ELSE <<line>>

\* The byte loop of consume_stream_chunk over one stream's pending buffer.
RECURSIVE ScanChunk(_, _, _)
ScanChunk(pending, lines, data) ==
  IF data = <<>> THEN [pending |-> pending, lines |-> lines]
  ELSE IF IsDelimiter(Head(data))
       THEN ScanChunk(<<>>, lines \o flush_pending_line(pending), Tail(data))
       ELSE ScanChunk(Append(pending, Head(data)), lines, Tail(data))

\* Defect: what is pending at the end of a chunk is flushed as a line.
consume_stream_chunk_line_per_chunk(running, stream, data) ==
  LET scanned == ScanChunk(running.pending[stream], <<>>, data)
  IN [running |-> [running EXCEPT !.raw[stream] = @ \o data,
                                  !.pending[stream] = <<>>],
      lines |-> scanned.lines \o flush_pending_line(scanned.pending)]

\* Defect: a delimiter emits the line and leaves the pending bytes in place.
consume_stream_chunk_pending_kept(running, stream, data) ==
  LET scanned == ScanChunk(running.pending[stream], <<>>, data)
  IN [running |-> [running EXCEPT !.raw[stream] = @ \o data,
                                  !.pending[stream] =
                                     @ \o SelectSeq(data, LAMBDA b : ~IsDelimiter(b))],
      lines |-> scanned.lines]

\* consume_stream_chunk: the job with the stream's raw and pending updated,
\* and the completed lines.
consume_stream_chunk(running, stream, data) ==
  LET scanned == ScanChunk(running.pending[stream], <<>>, data)
  IN [running |-> [running EXCEPT !.raw[stream] = @ \o data,
                                  !.pending[stream] = scanned.pending],
      lines |-> scanned.lines]

\* ---------------------------------------------------- Capability Parser
\* Text is a sequence of characters, each a string of length one.
AsciiDigit == {"0", "1", "2", "3", "4", "5", "6", "7", "8", "9"}
AsciiDigits == <<"0", "1", "2", "3", "4", "5", "6", "7", "8", "9">>
AsciiLower == {"a", "b", "c", "d", "e", "f", "g", "h", "i", "j", "k", "l", "m", "n", "o", "p", "q", "r", "s", "t", "u", "v", "w", "x", "y", "z"}
AsciiUpper == {"A", "B", "C", "D", "E", "F", "G", "H", "I", "J", "K", "L", "M", "N", "O", "P", "Q", "R", "S", "T", "U", "V", "W", "X", "Y", "Z"}
Whitespace == {" ", "\t"}

QUALITY_ID_WIDTH == 7
QUALITY_EXT_WIDTH == 4
QUALITY_RES_WIDTH == 9
QUALITY_FPS_WIDTH == 6
QUALITY_SIZE_WIDTH == 10
QUALITY_AUD_WIDTH == 5
\* `if candidates.len() >= 79 { break; }`
CANDIDATE_CAP == 79

MinOf(set) == CHOOSE x \in set : \A y \in set : x <= y
AllIn(s, chars) == \A i \in 1..Len(s) : s[i] \in chars
\* str::find from index i on: the first index of a character for which
\* membership in `chars` is `member`, 0 for None.
RECURSIVE FindFrom(_, _, _, _)
FindFrom(s, i, chars, member) ==
  IF i > Len(s) THEN 0
  ELSE IF (s[i] \in chars) = member THEN i
  ELSE FindFrom(s, i + 1, chars, member)
FindIn(s, chars) == FindFrom(s, 1, chars, TRUE)
FindNotIn(s, chars) == FindFrom(s, 1, chars, FALSE)
From(s, i) == SubSeq(s, i, Len(s))

\* str::trim_start_matches, trim_end_matches, trim_matches, trim
trim_start_matches(s, chars) ==
  IF FindNotIn(s, chars) = 0 THEN <<>> ELSE From(s, FindNotIn(s, chars))
RECURSIVE trim_end_matches(_, _)
trim_end_matches(s, chars) ==
  IF s # <<>> /\ s[Len(s)] \in chars
  THEN trim_end_matches(SubSeq(s, 1, Len(s) - 1), chars)
  ELSE s
trim_matches(s, chars) == trim_end_matches(trim_start_matches(s, chars), chars)
trim(s) == trim_matches(s, Whitespace)

\* char::is_whitespace, over code points
White_Space ==
  {9, 10, 11, 12, 13, 32, 133, 160, 5760, 8232, 8233, 8239, 8287, 12288} \cup (8192..8202)

\* str::lines over code points: the text between line feeds, each line without
\* the carriage return that stood before its line feed; what follows the last
\* line feed is a line unless it is empty.
RECURSIVE str_lines(_)
str_lines(text) ==
  IF text = <<>> THEN <<>>
  ELSE LET end == FindIn(text, {10})
       IN IF end = 0 THEN <<text>>
          ELSE LET line == SubSeq(text, 1, end - 1)
               IN <<IF line # <<>> /\ line[Len(line)] = 13
                    THEN SubSeq(line, 1, Len(line) - 1) ELSE line>>
                  \o str_lines(From(text, end + 1))

\* "Conversion failed!"
CONVERSION_FAILED ==
  <<67, 111, 110, 118, 101, 114, 115, 105, 111, 110, 32, 102, 97, 105, 108, 101, 100, 33>>
\* "unknown ffmpeg error"
UNKNOWN_FFMPEG_ERROR ==
  <<117, 110, 107, 110, 111, 119, 110, 32, 102, 102, 109, 112, 101, 103, 32, 101, 114, 114, 111, 114>>
\* "unknown yt-dlp error"
UNKNOWN_YT_DLP_ERROR ==
  <<117, 110, 107, 110, 111, 119, 110, 32, 121, 116, 45, 100, 108, 112, 32, 101, 114, 114, 111, 114>>

\* stderr.lines().map(str::trim).filter(|line| !line.is_empty())
trimmed_lines(stderr) ==
  LET all == str_lines(stderr)
  IN SelectSeq([i \in 1..Len(all) |-> trim_matches(all[i], White_Space)],
               LAMBDA line : line # <<>>)

\* The loop `for line in lines.iter().rev()` from index i down: the first
\* line that is not "Conversion failed!", else "unknown ffmpeg error".
RECURSIVE LastOtherLine(_, _)
LastOtherLine(candidates, i) ==
  IF i = 0 THEN UNKNOWN_FFMPEG_ERROR
  ELSE IF candidates[i] # CONVERSION_FAILED THEN candidates[i]
  ELSE LastOtherLine(candidates, i - 1)

\* ....next_back().unwrap_or(unknown) of finish_running_downloader
last_line(stderr, unknown) ==
  LET candidates == trimmed_lines(stderr)
  IN IF candidates = <<>> THEN unknown ELSE candidates[Len(candidates)]

\* Defect: the summary is the last line, whatever it says.
summarize_ffmpeg_error_last_line(stderr) == last_line(stderr, UNKNOWN_FFMPEG_ERROR)

summarize_ffmpeg_error(stderr) ==
  LastOtherLine(trimmed_lines(stderr), Len(trimmed_lines(stderr)))

\* str::contains with a non-empty pattern
contains(s, pattern) ==
  \E i \in 1..(Len(s) - Len(pattern) + 1) : SubSeq(s, i, i + Len(pattern) - 1) = pattern

\* str::split_whitespace: the tokens of t, which starts with no whitespace;
\* `end` is the index of the first whitespace in it, 0 if it has none.
RECURSIVE SplitTokens(_, _)
SplitTokens(t, end) ==
  IF t = <<>> THEN <<>>
  ELSE IF end = 0 THEN <<t>>
  ELSE <<SubSeq(t, 1, end - 1)>>
         \o SplitTokens(trim_start_matches(From(t, end), Whitespace),
                        FindIn(trim_start_matches(From(t, end), Whitespace), Whitespace))
split_whitespace(s) ==
  SplitTokens(trim_start_matches(s, Whitespace),
              FindIn(trim_start_matches(s, Whitespace), Whitespace))

\* Iterator::find_map over the tokens of a line: the first Some, as <<v>>, or
\* <<>> for None.
find_map(tokens, f(_)) ==
  IF \E i \in 1..Len(tokens) : f(tokens[i]) # <<>>
  THEN f(tokens[MinOf({i \in 1..Len(tokens) : f(tokens[i]) # <<>>})])
  ELSE <<>>

is_format_id_token(token) ==
  /\ token # <<>>
  /\ AllIn(token, AsciiDigit \cup AsciiLower \cup AsciiUpper \cup {"-", "_", "."})

\* The closure of extract_resolution_token, from `clean` on; `at` is the
\* index of the first "x" in it, 0 if it has none.
ResolutionOf(clean, at) ==
  IF at = 0 THEN <<>>
  ELSE IF at = 1 \/ at = Len(clean) THEN <<>>
  ELSE IF ~AllIn(SubSeq(clean, 1, at - 1), AsciiDigit) THEN <<>>
  ELSE IF ~AllIn(From(clean, at + 1), AsciiDigit) THEN <<>>
  ELSE <<clean>>
ResolutionOfClean(clean) == ResolutionOf(clean, FindIn(clean, {"x"}))
ResolutionToken(token) == ResolutionOfClean(trim_matches(token, {",", "[", "]"}))
extract_resolution_token(line) == find_map(split_whitespace(line), ResolutionToken)

\* The closure of extract_fps_token.
FpsOf(clean) ==
  IF /\ Len(clean) > 3
     /\ From(clean, Len(clean) - 2) = <<"f", "p", "s">>
     /\ AllIn(SubSeq(clean, 1, Len(clean) - 3), AsciiDigit)
  THEN <<clean>>
  ELSE <<>>
FpsToken(token) == FpsOf(trim_end_matches(token, {","}))
extract_fps_token(line) == find_map(split_whitespace(line), FpsToken)

SizeUnits == {<<"B">>, <<"K", "i", "B">>, <<"M", "i", "B">>, <<"G", "i", "B">>, <<"T", "i", "B">>}
strip_prefix(s, c) == IF s # <<>> /\ Head(s) = c THEN Tail(s) ELSE s
\* The number of leading characters that are digits or dots.
NumberLen(s) ==
  IF FindNotIn(s, AsciiDigit \cup {"."}) = 0 THEN Len(s)
  ELSE FindNotIn(s, AsciiDigit \cup {"."}) - 1
\* The closure of extract_size_token, from `normalized` on.
SizeOf(clean, normalized) ==
  IF Len(normalized) < 3 THEN <<>>
  ELSE IF NumberLen(normalized) = 0 THEN <<>>
  ELSE IF From(normalized, NumberLen(normalized) + 1) \in SizeUnits THEN <<clean>>
  ELSE <<>>
SizeToken(token) ==
  SizeOf(trim_matches(token, {",", "[", "]"}),
         strip_prefix(trim_matches(token, {",", "[", "]"}), "~"))
extract_size_token(line) == find_map(split_whitespace(line), SizeToken)

DigitValue(c) == (CHOOSE i \in 1..10 : AsciiDigits[i] = c) - 1
RECURSIVE Decimal(_)
Decimal(digits) ==
  IF digits = <<>> THEN 0
  ELSE 10 * Decimal(SubSeq(digits, 1, Len(digits) - 1)) + DigitValue(digits[Len(digits)])
RECURSIVE Pow(_, _)
Pow(b, e) == IF e = 0 THEN 1 ELSE b * Pow(b, e - 1)
Multiplier(unit) ==
  IF unit = <<"B">> THEN 1
  ELSE IF unit = <<"K", "i", "B">> THEN 1024
  ELSE IF unit = <<"M", "i", "B">> THEN Pow(1024, 2)
  ELSE IF unit = <<"G", "i", "B">> THEN Pow(1024, 3)
  ELSE Pow(1024, 4)
\* number.parse::<f64>() of digits and dots succeeds with at most one dot and
\* at least one digit; (value * multiplier).round() is then taken on the
\* digits without the dot, scaled by the count of digits after it.
Digits(number) == SelectSeq(number, LAMBDA c : c # ".")
Fraction(number) == IF FindIn(number, {"."}) = 0 THEN 0 ELSE Len(number) - FindIn(number, {"."})
Rounded(number, unit) ==
  (2 * Decimal(Digits(number)) * Multiplier(unit) + Pow(10, Fraction(number)))
    \div (2 * Pow(10, Fraction(number)))
\* parse_size_bytes from the split at the first character that is neither a
\* digit nor a dot.
SizeBytesOf(number, unit) ==
  IF Digits(number) = <<>> \/ Len(number) - Len(Digits(number)) > 1 THEN <<>>
  ELSE IF unit \notin SizeUnits THEN <<>>
  ELSE <<Rounded(number, unit)>>
SizeBytesOfNormalized(normalized) ==
  IF normalized = <<>> \/ normalized = <<"-", "-">> THEN <<>>
  ELSE IF FindNotIn(normalized, AsciiDigit \cup {"."}) = 0 THEN <<>>
  ELSE SizeBytesOf(SubSeq(normalized, 1, NumberLen(normalized)),
                   From(normalized, NumberLen(normalized) + 1))
parse_size_bytes(size_token) ==
  SizeBytesOfNormalized(trim_start_matches(trim(size_token), {"~"}))

\* format!("{:<W$}", s): s, then spaces up to the width W.
PadRight(s, width) == s \o [i \in 1..(IF Len(s) < width THEN width - Len(s) ELSE 0) |-> " "]
format_quality_columns(id, ext, resolution, fps, size, audio, kind) ==
  PadRight(id, QUALITY_ID_WIDTH) \o <<" ">> \o PadRight(ext, QUALITY_EXT_WIDTH) \o <<" ">>
    \o PadRight(resolution, QUALITY_RES_WIDTH) \o <<" ">> \o PadRight(fps, QUALITY_FPS_WIDTH)
    \o <<" ">> \o PadRight(size, QUALITY_SIZE_WIDTH) \o <<" ">>
    \o PadRight(audio, QUALITY_AUD_WIDTH) \o <<" ">> \o kind

DefaultSelector == <<"b", "e", "s", "t", "v", "i", "d", "e", "o", "+", "b", "e", "s", "t", "a", "u", "d", "i", "o", "/", "b", "e", "s", "t">>
default_downloader_quality_choice ==
  [selector |-> DefaultSelector,
   label |-> format_quality_columns(<<"A", "U", "T", "O">>, <<"a", "u", "t", "o">>, <<"b", "e", "s", "t">>, <<"-", "-">>, <<"-", "-">>,
                                    <<"a", "u", "t", "o">>, <<"v", "i", "d", "e", "o">>)]

OrElse(option, default) == IF option = <<>> THEN default ELSE option[1]

\* Defect: the selector is the bare identifier for every row.
RowFieldsBareSelector(trimmed, format_id, ext, resolution, fps, size, video_only) ==
  [choice |-> [selector |-> format_id,
               label |-> format_quality_columns(format_id, ext, resolution, fps, size,
                                                IF video_only THEN <<"n", "o">> ELSE <<"y", "e", "s">>,
                                                IF video_only THEN <<"v", "i", "d", "e", "o">> ELSE <<"m", "u", "x", "e", "d">>)],
   size_bytes |-> parse_size_bytes(size)]

\* The body of the loop of parse_quality_choices_from_format_list for a line
\* of the table that is no separator, up to the check of `seen`: <<>> if the
\* line is skipped, else the candidate it gives, less its original_index.
RowFields(trimmed, format_id, ext, resolution, fps, size, video_only) ==
  [choice |-> [selector |-> IF video_only THEN format_id \o <<"+", "b", "e", "s", "t", "a", "u", "d", "i", "o", "/", "b", "e", "s", "t">>
                            ELSE format_id,
               label |-> format_quality_columns(format_id, ext, resolution, fps, size,
                                                IF video_only THEN <<"n", "o">> ELSE <<"y", "e", "s">>,
                                                IF video_only THEN <<"v", "i", "d", "e", "o">> ELSE <<"m", "u", "x", "e", "d">>)],
   size_bytes |-> parse_size_bytes(size)]
RowResolved(trimmed, parts, resolution) ==
  IF resolution = <<>> THEN <<>>
  ELSE <<RowFields(trimmed, parts[1], parts[2], resolution[1],
                   OrElse(extract_fps_token(trimmed), <<"-", "-">>),
                   OrElse(extract_size_token(trimmed), <<"-", "-">>),
                   contains(trimmed, <<"v", "i", "d", "e", "o", " ", "o", "n", "l", "y">>))>>
RowParts(trimmed, parts) ==
  IF ~is_format_id_token(parts[1]) THEN <<>>
  ELSE IF \/ contains(trimmed, <<"a", "u", "d", "i", "o", " ", "o", "n", "l", "y">>)
          \/ contains(trimmed, <<"i", "m", "a", "g", "e", "s">>)
          \/ contains(trimmed, <<"s", "t", "o", "r", "y", "b", "o", "a", "r", "d">>) THEN <<>>
  ELSE IF Len(parts) < 2 THEN <<>>
  ELSE RowResolved(trimmed, parts, extract_resolution_token(trimmed))
RowCandidate(trimmed) == RowParts(trimmed, split_whitespace(trimmed))

\* A QualityCandidate; `row` is not in the program: it records the line of the
\* transcript the candidate was made from.
QualityCandidate(fields, original_index, row) ==
  [choice |-> fields.choice, size_bytes |-> fields.size_bytes,
   original_index |-> original_index, row |-> row]

\* The loop's variables before the first line; `broke` tells that the loop
\* has been left by its break.
LoopStart ==
  [in_table |-> FALSE, seen |-> {DefaultSelector}, candidates |-> <<>>, broke |-> FALSE]
\* candidates.push(..), then the break at the cap.
PushCandidate(loop, fields, row, cap) ==
  [loop EXCEPT !.seen = @ \cup {fields.choice.selector},
               !.candidates = Append(@, QualityCandidate(fields, Len(@), row)),
               !.broke = Len(loop.candidates) + 1 >= cap]

\* Defect: a row is taken whether or not its selector was seen before.
ParseRowWithoutSeen(loop, candidate, row, cap) ==
  IF candidate = <<>> THEN loop ELSE PushCandidate(loop, candidate[1], row, cap)

\* The loop's body from `let mut parts` on, for a line of the table that is
\* no separator.
ParseRow(loop, candidate, row, cap) ==
  IF candidate = <<>> THEN loop
  ELSE IF candidate[1].choice.selector \in loop.seen THEN loop
  ELSE PushCandidate(loop, candidate[1], row, cap)
\* The loop's body for the trimmed line of number `row`.
ParseLine(loop, trimmed, row, cap) ==
  IF trimmed = <<>> THEN loop
  ELSE IF ~loop.in_table
  THEN [loop EXCEPT !.in_table = contains(trimmed, <<"I", "D">>) /\ contains(trimmed, <<"E", "X", "T">>)]
  ELSE IF Head(trimmed) = "-" THEN loop
  ELSE ParseRow(loop, RowCandidate(trimmed), row, cap)
\* The loop `for line in output.lines()` over the lines first..last in their
\* order: the first half of them, then the second half.
RECURSIVE ParseLines(_, _, _, _, _)
ParseLines(loop, lines, first, last, cap) ==
  IF loop.broke \/ first > last THEN loop
  ELSE IF first = last THEN ParseLine(loop, trim(lines[first]), first, cap)
  ELSE ParseLines(ParseLines(loop, lines, first, (first + last) \div 2, cap),
                  lines, ((first + last) \div 2) + 1, last, cap)

\* Defect: the candidates are ordered by their place in the table alone.
compare_by_original_index(left, right) ==
  IF left.original_index < right.original_index THEN "Less"
  ELSE IF left.original_index > right.original_index THEN "Greater"
  ELSE "Equal"

compare_quality_candidates(left, right) ==
  IF left.size_bytes # <<>> /\ right.size_bytes # <<>>
  THEN IF left.size_bytes[1] < right.size_bytes[1] THEN "Less"
       ELSE IF left.size_bytes[1] > right.size_bytes[1] THEN "Greater"
       ELSE IF left.original_index < right.original_index THEN "Less"
       ELSE IF left.original_index > right.original_index THEN "Greater"
       ELSE "Equal"
  ELSE IF left.size_bytes # <<>> THEN "Less"
  ELSE IF right.size_bytes # <<>> THEN "Greater"
  ELSE IF left.original_index < right.original_index THEN "Less"
  ELSE IF left.original_index > right.original_index THEN "Greater"
  ELSE "Equal"

\* candidates.sort_by(compare_quality_candidates), a stable sort: each
\* candidate in turn goes before the first one it is Less than.
InsertAt(sorted, at, candidate) ==
  SubSeq(sorted, 1, at - 1) \o <<candidate>> \o From(sorted, at)
InsertSorted(sorted, candidate) ==
  IF \E i \in 1..Len(sorted) : compare_quality_candidates(candidate, sorted[i]) = "Less"
  THEN InsertAt(sorted,
                MinOf({i \in 1..Len(sorted) :
                         compare_quality_candidates(candidate, sorted[i]) = "Less"}),
                candidate)
  ELSE Append(sorted, candidate)
\* The candidates after those already in `sorted`, up to the one of index
\* `last`, go into it one after the other.
RECURSIVE InsertAll(_, _, _)
InsertAll(sorted, candidates, last) ==
  IF Len(sorted) >= last THEN sorted
  ELSE IF Len(sorted) + 1 = last THEN InsertSorted(sorted, candidates[last])
  ELSE InsertAll(InsertAll(sorted, candidates, (Len(sorted) + last) \div 2),
                 candidates, last)
sort_by(candidates) == InsertAll(<<>>, candidates, Len(candidates))

\* The candidates of a transcript, given as the lines of `output.lines()`,
\* before and after the sort.
Candidates(lines, cap) == ParseLines(LoopStart, lines, 1, Len(lines), cap).candidates
SortedCandidates(lines) == sort_by(Candidates(lines, CANDIDATE_CAP))
ChoicesOf(candidates) == [i \in 1..Len(candidates) |-> candidates[i].choice]

\* Defect: the list is returned without the default choice at its head.
parse_quality_choices_without_default(lines) == ChoicesOf(SortedCandidates(lines))

\* Defect: every row is taken, and the list is cut after the sort.
truncate(choices, len) == SubSeq(choices, 1, IF Len(choices) < len THEN Len(choices) ELSE len)
parse_quality_choices_capped_after_sort(lines) ==
  <<default_downloader_quality_choice>>
    \o truncate(ChoicesOf(sort_by(Candidates(lines, Len(lines) + 1))), CANDIDATE_CAP)

parse_quality_choices_from_format_list(lines) ==
  <<default_downloader_quality_choice>> \o ChoicesOf(SortedCandidates(lines))

\* ----------------------------------------------------- Output Path Resolver
\* A path is the sequence of its characters, and the file system the set of
\* the paths that exist.  A number is the sequence of its decimal digits
\* without leading zeros, so u32::MAX is one of them.
U32_MAX == <<"4", "2", "9", "4", "9", "6", "7", "2", "9", "5">>
MaxOf(set) == CHOOSE x \in set : \A y \in set : x >= y
\* str::rfind(ch): the last index of ch, 0 for None.
rfind(text, ch) ==
  IF \E i \in 1..Len(text) : text[i] = ch
  THEN MaxOf({i \in 1..Len(text) : text[i] = ch})
  ELSE 0

\* The order of two numbers.
NumberLess(a, b) ==
  \/ Len(a) < Len(b)
  \/ /\ Len(a) = Len(b)
     /\ \E i \in 1..Len(a) :
          /\ SubSeq(a, 1, i - 1) = SubSeq(b, 1, i - 1)
          /\ DigitValue(a[i]) < DigitValue(b[i])
\* The number after `number`.
RECURSIVE Successor(_)
Successor(number) ==
  IF number = <<>> THEN <<"1">>
  ELSE IF number[Len(number)] = "9"
  THEN Append(Successor(SubSeq(number, 1, Len(number) - 1)), "0")
  ELSE Append(SubSeq(number, 1, Len(number) - 1),
              AsciiDigits[DigitValue(number[Len(number)]) + 2])
\* The number a non-empty text of digits stands for.
Canonical(number_text) ==
  IF trim_start_matches(number_text, {"0"}) = <<>> THEN <<"0">>
  ELSE trim_start_matches(number_text, {"0"})
\* str::parse::<u32> of a non-empty text of digits: None if the value is
\* above u32::MAX.
parse_u32(number_text) ==
  IF NumberLess(U32_MAX, Canonical(number_text)) THEN <<>> ELSE <<Canonical(number_text)>>
\* u32::checked_add(1) and u32::saturating_add(1)
checked_add_1(number) == IF number = U32_MAX THEN <<>> ELSE <<Successor(number)>>
saturating_add_1(number) == IF number = U32_MAX THEN number ELSE Successor(number)

\* Path::parent, file_name, extension, file_stem and join, for a path whose
\* last component is the name of a file.
file_name(path) == From(path, rfind(path, "/") + 1)
parent(path) ==
  IF rfind(path, "/") = 0 THEN <<>>
  ELSE IF rfind(path, "/") = 1 THEN <<"/">>
  ELSE SubSeq(path, 1, rfind(path, "/") - 1)
ExtensionOf(name) ==
  IF rfind(name, ".") <= 1 THEN <<>> ELSE <<From(name, rfind(name, ".") + 1)>>
extension(path) == ExtensionOf(file_name(path))
StemOf(name) ==
  IF rfind(name, ".") <= 1 THEN name ELSE SubSeq(name, 1, rfind(name, ".") - 1)
file_stem(path) == StemOf(file_name(path))
join(dir, name) ==
  IF dir = <<>> THEN name
  ELSE IF dir[Len(dir)] = "/" THEN dir \o name
  ELSE dir \o <<"/">> \o name

\* split_numbered_suffix from `number_text` on; open_index is the index of
\* the last "(" of without_close.
SplitAt(stem, without_close, open_index, number_text) ==
  IF number_text = <<>> \/ ~AllIn(number_text, AsciiDigit)
  THEN [base |-> stem, number |-> <<>>]
  ELSE IF parse_u32(number_text) = <<>> THEN [base |-> stem, number |-> <<>>]
  ELSE IF open_index = 1 THEN [base |-> stem, number |-> <<>>]
  ELSE [base |-> SubSeq(without_close, 1, open_index - 1), number |-> parse_u32(number_text)]
SplitWithoutClose(stem, without_close) ==
  IF rfind(without_close, "(") = 0 THEN [base |-> stem, number |-> <<>>]
  ELSE SplitAt(stem, without_close, rfind(without_close, "("),
               From(without_close, rfind(without_close, "(") + 1))
split_numbered_suffix(stem) ==
  IF stem = <<>> \/ stem[Len(stem)] # ")" THEN [base |-> stem, number |-> <<>>]
  ELSE SplitWithoutClose(stem, SubSeq(stem, 1, Len(stem) - 1))

\* candidate_path of the loop of next_available_output_path.
CandidatePath(dir, base_stem, ext, number) ==
  join(dir, IF ext = <<>> THEN base_stem \o <<"(">> \o number \o <<")">>
            ELSE base_stem \o <<"(">> \o number \o <<")", ".">> \o ext)
\* The loop of next_available_output_path: Some(path) if it returns, None if
\* it never does, the number staying at u32::MAX while that path exists.
RECURSIVE SearchFrom(_, _, _, _, _)
SearchFrom(dir, base_stem, ext, number, files) ==
  IF CandidatePath(dir, base_stem, ext, number) \notin files
  THEN <<CandidatePath(dir, base_stem, ext, number)>>
  ELSE IF saturating_add_1(number) = number THEN <<>>
  ELSE SearchFrom(dir, base_stem, ext, saturating_add_1(number), files)
\* The number the search starts at.
FirstNumber(parsed_number) ==
  IF parsed_number = <<>> THEN <<"1">>
  ELSE OrElse(checked_add_1(parsed_number[1]), <<"1">>)
SearchSplit(path, split, files) ==
  SearchFrom(parent(path), split.base, OrElse(extension(path), <<>>),
             FirstNumber(split.number), files)
\* next_available_output_path(path) against the files that exist: Some(the
\* path returned), or None if the call never returns.
next_available_output_path(path, files) ==
  IF path \notin files THEN <<path>>
  ELSE SearchSplit(path, split_numbered_suffix(file_stem(path)), files)

\* ------------------------------------------------------------------ state
VARIABLES
  running,                  \* running_editor / running_downloader: None or the Job
  running_downloader_probe, \* None or [command_line]
  output,                   \* ffmpeg_output / downloader_output
  spinner,                  \* ffmpeg_spinner_frame / downloader_spinner_frame
  status_message,
  right_tab,                \* the tab of the right pane that takes the keys
  pending_cancel,           \* None or the tool whose cancel awaits confirmation
  loop_pc,                  \* where the event loop of run() is: "tick" or "poll"
  available,                \* ffmpeg_available / downloader_available
  downloader_url,
  downloader_step,
  downloader_quality_choices,
  downloader_quality_index,
  downloader_option_focus,
  run_log,                  \* the records of ffmpeg_runs.log
  main_wait,                \* what the main thread is blocked on, "none" if nothing
  chan,                     \* per job slot: the events sent and not yet received
  proc,                     \* per job slot: the child process
  pipe,                     \* per job slot and stream: bytes written and not yet read
  reader,                   \* per job slot and stream: the reader thread
  probe_thread,             \* the thread of fetch_downloader_qualities
  probe_chan,               \* the probe results sent and not yet received
  shown,                    \* per job slot: history of the job whose output is shown
  effects,                  \* what the last handler did: process and file operations, a cancel
  disk,                     \* the paths that exist in the file system
  requested,                \* per job slot: the output path the form asks for
  resolved,                 \* the calls of next_available_output_path made so far
  spawns, probes, kills, bytes_written, faults  \* counters for the bounds

vars ==
  <<running, running_downloader_probe, output, spinner, status_message,
    right_tab, pending_cancel, loop_pc, available, downloader_url, downloader_step, downloader_quality_choices,
    downloader_quality_index, downloader_option_focus, run_log, main_wait, chan,
    proc, pipe, reader, probe_thread, probe_chan, shown, effects,
    disk, requested, resolved,
    spawns, probes, kills, bytes_written, faults>>

\* The output paths of the forms as the program starts: the editor's from
\* resolve_output_path, the downloader's as yt-dlp predicts it.
RequestedAtStart == [s \in JobSlots |-> IF s = "editor" THEN <<"a", ".", "m">> ELSE <<"v", ".", "m">>]
\* No file exists, no output path was looked for.
EmptyDisk == disk = {} /\ requested = RequestedAtStart /\ resolved = <<>>
DiskFrame == UNCHANGED <<disk, requested, resolved>>

NoBytes == [st \in Streams |-> <<>>]
NoProc == [state |-> "none", status |-> "", killed |-> 0]
NoReaders == [st \in Streams |-> [pc |-> "none"]]
NothingShown ==
  [job |-> "none", written |-> NoBytes, raw |-> NoBytes, flushed |-> FALSE, detail |-> <<>>]
Chunk(stream, data) == [type |-> "Chunk", stream |-> stream, data |-> data]
ReaderError(stream) == [type |-> "ReaderError", stream |-> stream, data |-> <<>>]


\* App::new, with the right pane on the given tab; whether the tools are
\* installed is found out at startup.
InitApp(tab) ==
  /\ right_tab = tab
  /\ pending_cancel = <<>>  \* Option<PendingCancel>: <<>> is None
  /\ loop_pc = "tick"
  /\ running = [s \in JobSlots |-> None]
  /\ running_downloader_probe = None
  /\ output = [s \in JobSlots |-> ToolOutputEmpty]
  /\ spinner = [s \in JobSlots |-> 0]
  /\ status_message = "Select a media file in the left pane."
  /\ available \in [JobSlots -> BOOLEAN]
  /\ downloader_url = ""
  /\ downloader_step = "UrlInput"
  /\ downloader_quality_choices = <<default_downloader_quality_choice>>
  /\ downloader_quality_index = 0
  /\ downloader_option_focus = <<>>  \* Option<usize>: <<>> is None, <<i>> is Some(i)
  /\ run_log = <<>>
  /\ main_wait = "none"
  /\ chan = [s \in JobSlots |-> <<>>]
  /\ proc = [s \in JobSlots |-> NoProc]
  /\ pipe = [s \in JobSlots |-> NoBytes]
  /\ reader = [s \in JobSlots |-> NoReaders]
  /\ probe_thread = "none"
  /\ probe_chan = <<>>
  /\ shown = [s \in JobSlots |-> NothingShown]
  /\ effects = {}
  /\ spawns = 0
  /\ probes = 0
  /\ kills = 0
  /\ bytes_written = 0
  /\ faults = 0
  /\ EmptyDisk

\* App::new sets right_tab to RightTab::Editor.
Init == InitApp("Editor")

\* The state a handler of the main thread works on, and its result.
Cur ==
  [running |-> running, probe |-> running_downloader_probe, output |-> output,
   spinner |-> spinner, status_message |-> status_message,
   downloader_step |-> downloader_step,
   downloader_quality_choices |-> downloader_quality_choices,
   downloader_quality_index |-> downloader_quality_index,
   downloader_option_focus |-> downloader_option_focus,
   run_log |-> run_log, chan |-> chan, proc |-> proc, pipe |-> pipe,
   reader |-> reader, probe_chan |-> probe_chan, shown |-> shown,
   probe_thread |-> probe_thread, main_wait |-> main_wait,
   right_tab |-> right_tab, pending_cancel |-> pending_cancel,
   disk |-> disk, requested |-> requested,
   effects |-> {}, kills |-> kills]

Commit(S) ==
  /\ running' = S.running
  /\ running_downloader_probe' = S.probe
  /\ output' = S.output
  /\ spinner' = S.spinner
  /\ status_message' = S.status_message
  /\ downloader_step' = S.downloader_step
  /\ downloader_quality_choices' = S.downloader_quality_choices
  /\ downloader_quality_index' = S.downloader_quality_index
  /\ downloader_option_focus' = S.downloader_option_focus
  /\ run_log' = S.run_log
  /\ chan' = S.chan
  /\ proc' = S.proc
  /\ pipe' = S.pipe
  /\ reader' = S.reader
  /\ probe_chan' = S.probe_chan
  /\ shown' = S.shown
  /\ effects' = S.effects
  /\ kills' = S.kills
  /\ probe_thread' = S.probe_thread
  /\ main_wait' = S.main_wait
  /\ right_tab' = S.right_tab
  /\ pending_cancel' = S.pending_cancel

\* ------------------------------------------------- the Job of a tool slot
CommandOf(s) == IF s = "editor" THEN "ffmpeg <args>" ELSE "yt-dlp <args>"
StreamingMessage(s) ==
  IF s = "editor" THEN "Streaming ffmpeg output..." ELSE "Streaming yt-dlp output..."

\* start_ffmpeg_job / start_downloader_job after a successful spawn: the two
\* readers are started on the child's pipes and share one channel.
\* Defect: the path the form asks for is handed to the job as it is.
ResolvedOutputPathAsRequested(S, s) == <<S.requested[s]>>

\* The output path of a job about to start: next_available_output_path of
\* the path the form asks for, against the files that exist as the handler
\* runs; None if that call never returns.
ResolvedOutputPath(S, s) == next_available_output_path(S.requested[s], S.disk)
\* The main thread is in a call of next_available_output_path that never
\* returns.
NeverResolved(S) == [S EXCEPT !.main_wait = "next_available_output_path"]

StartJob(S, s) ==
  [S EXCEPT !.proc[s] = [state |-> "alive", status |-> "", killed |-> 0],
            !.pipe[s] = NoBytes,
            !.reader[s] = [st \in Streams |-> [pc |-> "read"]],
            !.chan[s] = <<>>,
            !.spinner[s] = 0,
            !.output[s] = begin_stream(@, CommandOf(s), StreamingMessage(s)),
            !.running[s] = [command_line |-> CommandOf(s), raw |-> NoBytes,
                            pending |-> NoBytes,
                            output_path |-> ResolvedOutputPath(S, s)[1]],
            !.shown[s] = [job |-> "running", written |-> NoBytes, raw |-> NoBytes,
                          flushed |-> FALSE, detail |-> <<>>],
            !.effects = @ \cup {"spawn"}]

\* Dropping the Job: the receiver goes with it, so whatever the readers still
\* hold or would read reaches nobody; the child is no longer looked at.
DropJob(S, s, how, flushed) ==
  [S EXCEPT !.shown[s] = [job |-> how, written |-> S.shown[s].written,
                          raw |-> S.running[s].raw, flushed |-> flushed,
                          detail |-> <<>>],
            !.running[s] = None,
            !.chan[s] = <<>>,
            !.proc[s] = NoProc,
            !.pipe[s] = NoBytes,
            !.reader[s] = NoReaders]

\* Defect: the receive loop takes the newest event first.
RECURSIVE DrainEventsNewestFirst(_, _, _)
DrainEventsNewestFirst(job, events, lines) ==
  IF events = <<>> THEN [running |-> job, lines |-> lines]
  ELSE LET event == events[Len(events)]
           rest == SubSeq(events, 1, Len(events) - 1)
       IN IF event.type = "Chunk"
          THEN LET got == consume_stream_chunk(job, event.stream, event.data)
               IN DrainEventsNewestFirst(got.running, rest,
                                         lines \o [i \in 1..Len(got.lines) |->
                                                     [stream |-> event.stream,
                                                      line |-> TextLine(got.lines[i])]])
          ELSE DrainEventsNewestFirst(job, rest,
                                      Append(lines, [stream |-> event.stream,
                                                     line |-> ReaderErrorLine]))

\* The receive loop `while let Ok(event) = running.rx.try_recv()` over the
\* events queued now: the job after them and the lines they give, in order.
RECURSIVE DrainEvents(_, _, _)
DrainEvents(job, events, lines) ==
  IF events = <<>> THEN [running |-> job, lines |-> lines]
  ELSE LET event == Head(events)
       IN IF event.type = "Chunk"
          THEN LET got == consume_stream_chunk(job, event.stream, event.data)
               IN DrainEvents(got.running,
                              Tail(events),
                              lines \o [i \in 1..Len(got.lines) |->
                                          [stream |-> event.stream,
                                           line |-> TextLine(got.lines[i])]])
          ELSE DrainEvents(job, Tail(events),
                           Append(lines, [stream |-> event.stream, line |-> ReaderErrorLine]))

\* append_stream_line / append_downloader_stream_line for each line in turn.
RECURSIVE append_stream_lines(_, _)
append_stream_lines(out, lines) ==
  IF lines = <<>> THEN out
  ELSE append_stream_lines(append_prefixed(out, Head(lines).stream, Head(lines).line),
                           Tail(lines))

\* Defect: a reader error ends the job, as if the child had gone with its pipe.
pump_dropping_on_reader_error(S, s) ==
  IF S.running[s] = None THEN S
  ELSE LET got == DrainEvents(S.running[s], S.chan[s], <<>>)
           pumped == [S EXCEPT !.running[s] = got.running,
                               !.chan[s] = <<>>,
                               !.output[s] = append_stream_lines(@, got.lines)]
       IN IF \E i \in 1..Len(S.chan[s]) : S.chan[s][i].type = "ReaderError"
          THEN DropJob(pumped, s, "abandoned", FALSE)
          ELSE pumped

\* pump_running_trim_events / pump_running_downloader_events
pump_running_events(S, s) ==
  IF S.running[s] = None THEN S
  ELSE LET got == DrainEvents(S.running[s], S.chan[s], <<>>)
       IN [S EXCEPT !.running[s] = got.running,
                    !.chan[s] = <<>>,
                    !.output[s] = append_stream_lines(@, got.lines)]

\* Defect: the Job is finalized without the flush of the pending tails.
FinishDrainWithoutFlush(S, s) ==
  LET got == DrainEvents(S.running[s], S.chan[s], <<>>)
      drained == [S EXCEPT !.running[s] = got.running,
                           !.output[s] = append_stream_lines(@, got.lines)]
  IN DropJob(drained, s, "finished", TRUE)

\* The part finish_running_trim and finish_running_downloader share: take the
\* job, drain the channel, flush stderr's then stdout's pending tail.
FinishDrainAndFlush(S, s) ==
  LET got == DrainEvents(S.running[s], S.chan[s], <<>>)
      err_tail == flush_pending_line(got.running.pending["stderr"])
      out_tail == flush_pending_line(got.running.pending["stdout"])
      tails == [i \in 1..Len(err_tail) |-> [stream |-> "stderr", line |-> TextLine(err_tail[i])]]
               \o [i \in 1..Len(out_tail) |-> [stream |-> "stdout", line |-> TextLine(out_tail[i])]]
      drained == [S EXCEPT !.running[s] = [got.running EXCEPT !.pending = NoBytes],
                           !.output[s] = append_stream_lines(@, got.lines \o tails)]
  IN DropJob(drained, s, "finished", TRUE)

ExitCode(status) ==
  IF status = "success" THEN "0" ELSE IF status = "failure" THEN "1" ELSE "<none>"

\* append_ffmpeg_run_log; written is FALSE when opening or writing the file fails.
append_ffmpeg_run_log(S, written, command_line, exit_code, stdout, stderr, launch_error) ==
  [S EXCEPT !.effects = @ \cup {"run_log"},
            !.run_log = IF written
                        THEN Append(@, [command_line |-> command_line,
                                        exit_code |-> exit_code,
                                        launch_error |-> launch_error,
                                        stdout |-> stdout, stderr |-> stderr])
                        ELSE @]

\* finish_running_trim
finish_running_editor(S, status, log_ok, refresh_ok) ==
  LET job == S.running["editor"]
      done == FinishDrainAndFlush(S, "editor")
      raw == done.shown["editor"].raw
      logged == append_ffmpeg_run_log(done, log_ok, job.command_line, ExitCode(status),
                                      raw["stdout"], raw["stderr"], "")
  IN IF status = "success"
     THEN [logged EXCEPT
             !.effects = @ \cup {"refresh_file_browser"},
             !.status_message =
                IF log_ok
                THEN IF refresh_ok THEN "Created clip: <path> (log: <log>)"
                     ELSE "Created clip: <path> (log: <log>) (browser refresh failed: <err>)"
                ELSE IF refresh_ok THEN "Created clip: <path> (log write failed: <err>)"
                     ELSE "Created clip: <path> (log write failed: <err>) (browser refresh failed: <err>)"]
     ELSE [logged EXCEPT
             !.shown["editor"].detail = <<summarize_ffmpeg_error(Utf8Lossy(raw["stderr"]))>>,
             !.status_message =
                IF log_ok THEN "ffmpeg failed: <detail> (log: <log>)"
                ELSE "ffmpeg failed: <detail> (log write failed: <err>)"]

\* finish_running_downloader
finish_running_downloader(S, status, refresh_ok) ==
  LET job == S.running["downloader"]
      done == FinishDrainAndFlush(S, "downloader")
      told == IF status = "success"
              THEN [done EXCEPT
                      !.effects = @ \cup {"refresh_file_browser"},
                      !.status_message =
                         IF refresh_ok THEN "Downloader completed successfully."
                         ELSE "Downloader completed, but browser refresh failed: <err>"]
              ELSE [done EXCEPT
                      !.shown["downloader"].detail =
                         <<last_line(Utf8Lossy(done.shown["downloader"].raw["stderr"]),
                                     UNKNOWN_YT_DLP_ERROR)>>,
                      !.status_message = "Downloader failed: <detail>"]
  IN [told EXCEPT !.output["downloader"] =
        append_line(@, Message(IF status = "success" THEN "Downloader finished with exit code: 0"
                               ELSE IF status = "failure" THEN "Downloader finished with exit code: 1"
                               ELSE "Downloader finished with exit code: -1"))]

\* Defect: the poll never reports the exit.
try_wait_never_exited(S, s, poll) ==
  IF poll = "err" THEN "Err" ELSE "Running"

\* Defect: the poll reports an exit although the child is alive.
try_wait_always_exited(S, s, poll) ==
  IF poll = "err" THEN "Err" ELSE "Exited"

\* Defect: a failed poll is taken for an exit.
try_wait_error_as_exit(S, s, poll) ==
  IF poll = "err" THEN "Exited"
  ELSE IF S.proc[s].state = "exited" THEN "Exited" ELSE "Running"

\* child.try_wait(): "err" when the poll fails, else what the OS reports.
try_wait(S, s, poll) ==
  IF poll = "err" THEN "Err"
  ELSE IF S.proc[s].state = "exited" THEN "Exited" ELSE "Running"

\* try_finish_running_trim
try_finish_running_editor(S, poll, log_ok, refresh_ok) ==
  IF S.running["editor"] = None THEN S
  ELSE LET polled == [S EXCEPT !.effects = @ \cup {"try_wait"}]
           status_result == try_wait(S, "editor", poll)
       IN IF status_result = "Exited"
          THEN finish_running_editor(polled, S.proc["editor"].status, log_ok, refresh_ok)
          ELSE IF status_result = "Running" THEN polled
          ELSE DropJob([polled EXCEPT
                          !.output["editor"] =
                             append_line(@, PrefixedMessage("stderr", "failed to poll ffmpeg: <err>")),
                          !.status_message = "Failed to monitor ffmpeg process: <err>"],
                       "editor", "abandoned", FALSE)

\* Defect: a Job whose child was killed ends as cancelled, without classification.
try_finish_running_downloader_cancelled(S, poll, refresh_ok) ==
  IF S.running["downloader"] = None THEN S
  ELSE LET polled == [S EXCEPT !.effects = @ \cup {"try_wait"}]
           status_result == try_wait(S, "downloader", poll)
       IN IF status_result = "Exited" /\ S.proc["downloader"].killed > 0
          THEN DropJob([polled EXCEPT !.status_message = "Download cancelled."],
                       "downloader", "cancelled", FALSE)
          ELSE IF status_result = "Exited"
          THEN finish_running_downloader(polled, S.proc["downloader"].status, refresh_ok)
          ELSE polled

\* try_finish_running_downloader
try_finish_running_downloader(S, poll, refresh_ok) ==
  IF S.running["downloader"] = None THEN S
  ELSE LET polled == [S EXCEPT !.effects = @ \cup {"try_wait"}]
           status_result == try_wait(S, "downloader", poll)
       IN IF status_result = "Exited"
          THEN finish_running_downloader(polled, S.proc["downloader"].status, refresh_ok)
          ELSE IF status_result = "Running" THEN polled
          ELSE DropJob([polled EXCEPT
                          !.output["downloader"] =
                             append_line(@, PrefixedMessage("stderr", "failed to poll Downloader process: <err>")),
                          !.status_message = "Failed to monitor Downloader process: <err>"],
                       "downloader", "abandoned", FALSE)

\* ------------------------------------------------------ the quality probe
ProbeCommand == "yt-dlp -F <url>"
ProbeSuccess == [ok |-> TRUE, choices |-> <<default_downloader_quality_choice, "18">>, error |-> ""]
ProbeFailed(error) == [ok |-> FALSE, choices |-> <<>>, error |-> error]
\* What probe_downloader_qualities can return.
ProbeResults == {ProbeSuccess, ProbeFailed("Format probe failed: <detail>")}

\* Defect: a failed probe empties the list of choices.
try_finish_running_downloader_probe_dropping_choices(S) ==
  IF S.probe = None THEN S
  ELSE IF S.probe_chan = <<>> /\ S.probe_thread = "running" THEN S
  ELSE LET result == IF S.probe_chan # <<>> THEN Head(S.probe_chan)
                     ELSE ProbeFailed("Failed to receive quality options from probe thread.")
           command_line == S.probe.command_line
           taken == [S EXCEPT !.probe = None, !.probe_chan = <<>>, !.probe_thread = "none"]
       IN [taken EXCEPT
             !.downloader_quality_choices = result.choices,
             !.downloader_quality_index = 0,
             !.downloader_option_focus = IF result.ok THEN <<0>> ELSE @,
             !.downloader_step = IF result.ok THEN "QualitySelect" ELSE "UrlInput",
             !.status_message = IF result.ok THEN "Loaded <total> video quality options."
                                ELSE result.error,
             !.output["downloader"] =
                IF result.ok
                THEN append_line(begin_stream(@, command_line, "Video quality options loaded."),
                                 Message("Detected <total> video quality options."))
                ELSE replace_with_command_error(@, command_line, result.error),
             !.shown["downloader"] = NothingShown]

\* try_finish_running_downloader_probe
try_finish_running_downloader_probe(S) ==
  IF S.probe = None THEN S
  ELSE IF S.probe_chan = <<>> /\ S.probe_thread = "running" THEN S
  ELSE LET result == IF S.probe_chan # <<>> THEN Head(S.probe_chan)
                     ELSE ProbeFailed("Failed to receive quality options from probe thread.")
           command_line == S.probe.command_line
           taken == [S EXCEPT !.probe = None, !.probe_chan = <<>>, !.probe_thread = "none"]
       IN IF result.ok
          THEN [taken EXCEPT
                  !.downloader_quality_choices = result.choices,
                  !.downloader_quality_index = 0,
                  !.downloader_option_focus = <<0>>,
                  !.downloader_step = "QualitySelect",
                  !.status_message = "Loaded <total> video quality options.",
                  !.output["downloader"] =
                     append_line(begin_stream(@, command_line, "Video quality options loaded."),
                                 Message("Detected <total> video quality options.")),
                  !.shown["downloader"] = NothingShown]
          ELSE [taken EXCEPT
                  !.downloader_step = "UrlInput",
                  !.output["downloader"] = replace_with_command_error(@, command_line, result.error),
                  !.shown["downloader"] = NothingShown,
                  !.status_message = result.error]

\* fetch_downloader_qualities
fetch_downloader_qualities(S, downloader_available, url) ==
  IF ~downloader_available
  THEN [S EXCEPT !.status_message = "Downloader requires yt-dlp in PATH. Install it to enable downloads."]
  ELSE IF url = ""
  THEN [S EXCEPT !.status_message = "Enter a URL before fetching quality options."]
  ELSE [S EXCEPT !.probe_thread = "running",
                 !.probe_chan = <<>>,
                 !.probe = [command_line |-> ProbeCommand],
                 !.spinner["downloader"] = 0,
                 !.output["downloader"] = begin_stream(@, ProbeCommand, "Fetching quality options..."),
                 !.shown["downloader"] = NothingShown,
                 !.status_message = "Fetching available downloader qualities..."]

\* ------------------------------------------------------------- the starts
EditorBusy(S) == S.running["editor"] # None
DownloaderBusy(S) == S.running["downloader"] # None
ProbeBusy(S) == S.probe # None

\* Defect: run_editor_export without the check of the slot.
run_editor_export_unchecked(S, ffmpeg_available, form_valid, spawn_ok, log_ok) ==
  IF ~ffmpeg_available
  THEN [S EXCEPT !.status_message = "ffmpeg was not found in PATH."]
  ELSE IF ~form_valid
  THEN [S EXCEPT !.status_message = "<the form is not valid>"]
  ELSE [StartJob(S, "editor") EXCEPT !.status_message = "Running ffmpeg -> <path>"]

\* run_editor_export; form_valid stands for the checks of the form (a video is
\* selected, the time range, fps, bitrate and scale parse, a name is given).
run_editor_export(S, ffmpeg_available, form_valid, spawn_ok, log_ok) ==
  IF EditorBusy(S)
  THEN [S EXCEPT !.status_message = "ffmpeg is already running. Wait for it to finish."]
  ELSE IF ~ffmpeg_available
  THEN [S EXCEPT !.status_message = "ffmpeg was not found in PATH."]
  ELSE IF ~form_valid
  THEN [S EXCEPT !.status_message = "<the form is not valid>"]
  ELSE IF ResolvedOutputPath(S, "editor") = <<>> THEN NeverResolved(S)
  ELSE IF spawn_ok
  THEN [StartJob(S, "editor") EXCEPT !.status_message = "Running ffmpeg -> <path>"]
  ELSE LET failed == [S EXCEPT
                        !.effects = @ \cup {"spawn"},
                        !.output["editor"] =
                           replace_with_command_error(@, CommandOf("editor"), "Failed to start ffmpeg: <err>"),
                        !.shown["editor"] = NothingShown]
           logged == append_ffmpeg_run_log(failed, log_ok, CommandOf("editor"), "<none>",
                                           <<>>, <<>>, "<err>")
       IN [logged EXCEPT !.status_message =
             IF log_ok THEN "Failed to start ffmpeg: <err> (log: <log>)"
             ELSE "Failed to start ffmpeg: <err> (log write failed: <err>)"]

\* Whether run_editor_export gets as far as spawning.
EditorSpawns(S, ffmpeg_available, form_valid) ==
  /\ ~EditorBusy(S) /\ ffmpeg_available /\ form_valid
  /\ ResolvedOutputPath(S, "editor") # <<>>

\* run_downloader_download up to the call of resolve_downloader_output_path,
\* which runs `yt-dlp --print filename` and waits for it (Command::output).
run_downloader_download(S, downloader_available, url) ==
  IF DownloaderBusy(S)
  THEN [S EXCEPT !.status_message = "Downloader is already running. Wait for it to finish."]
  ELSE IF ProbeBusy(S)
  THEN [S EXCEPT !.status_message = "Still fetching quality options. Please wait."]
  ELSE IF ~downloader_available
  THEN [S EXCEPT !.status_message = "Downloader requires yt-dlp in PATH. Install it to enable downloads."]
  ELSE IF url = ""
  THEN [S EXCEPT !.status_message = "Enter a URL before running Downloader."]
  ELSE [S EXCEPT !.main_wait = "resolve_downloader_output_path",
                 !.effects = @ \cup {"spawn", "wait"}]

\* run_downloader_download from the return of resolve_downloader_output_path.
run_downloader_download_resolved(S, resolved_ok, spawn_ok) ==
  LET back == [S EXCEPT !.main_wait = "none"]
  IN IF ~resolved_ok
     THEN [back EXCEPT !.status_message = "Failed to resolve downloader output name: <err>"]
     ELSE IF ResolvedOutputPath(S, "downloader") = <<>> THEN NeverResolved(S)
     ELSE IF spawn_ok
     THEN [StartJob(back, "downloader") EXCEPT !.status_message = "Running Downloader (<mode>) -> <path>"]
     ELSE [back EXCEPT
             !.effects = @ \cup {"spawn"},
             !.output["downloader"] =
                replace_with_command_error(@, CommandOf("downloader"), "Failed to start Downloader: <err>"),
             !.shown["downloader"] = NothingShown,
             !.status_message = "Failed to start Downloader: <err>"]

\* toggle_focused_downloader_option: the option flags only shape the command
\* line, which is opaque here; the status message tells the toggle.
toggle_focused_downloader_option(S) ==
  IF S.downloader_step # "QualitySelect" THEN S
  ELSE [S EXCEPT !.status_message = "Downloader option: <option> <ON/OFF>."]

\* Defect: Enter is not refused while the probe is outstanding.
downloader_press_enter_while_probing(S, downloader_available, url) ==
  IF DownloaderBusy(S)
  THEN [S EXCEPT !.status_message = "Downloader is already running. Wait for it to finish."]
  ELSE IF S.downloader_step = "UrlInput"
  THEN fetch_downloader_qualities(S, downloader_available, url)
  ELSE IF S.downloader_option_focus = <<>>
  THEN run_downloader_download(S, downloader_available, url)
  ELSE toggle_focused_downloader_option(S)

\* downloader_press_enter
downloader_press_enter(S, downloader_available, url) ==
  IF DownloaderBusy(S)
  THEN [S EXCEPT !.status_message = "Downloader is already running. Wait for it to finish."]
  ELSE IF ProbeBusy(S)
  THEN [S EXCEPT !.status_message = "Still fetching quality options. Please wait."]
  ELSE IF S.downloader_step = "UrlInput"
  THEN fetch_downloader_qualities(S, downloader_available, url)
  ELSE IF S.downloader_option_focus = <<>>
  THEN run_downloader_download(S, downloader_available, url)
  ELSE toggle_focused_downloader_option(S)

\* next_downloader_option_focus
next_downloader_option_focus(S) ==
  IF S.downloader_step # "QualitySelect" THEN S
  ELSE IF S.downloader_option_focus = <<>>
  THEN [S EXCEPT !.downloader_option_focus = <<0>>]
  ELSE IF S.downloader_option_focus[1] + 1 < DOWNLOADER_OPTION_COUNT
  THEN [S EXCEPT !.downloader_option_focus = <<@[1] + 1>>]
  ELSE [S EXCEPT !.downloader_option_focus = <<>>, !.downloader_quality_index = 0]


\* ------------------------------------------------------------- the cancel
\* Defect: the cancel clears the slot itself once the kill is sent.
cancel_downloader_clearing_slot(S, poll, kill_ok) ==
  IF S.running["downloader"] = None
  THEN [S EXCEPT !.effects = @ \cup {"cancel"},
                 !.status_message = "No running downloader job to cancel."]
  ELSE LET polled == [S EXCEPT !.effects = @ \cup {"cancel", "try_wait"}]
           status_result == try_wait(S, "downloader", poll)
       IN IF status_result = "Exited"
          THEN [polled EXCEPT !.status_message = "Downloader job is already finishing."]
          ELSE IF status_result = "Err"
          THEN [polled EXCEPT !.status_message = "Failed to inspect downloader process: <err>"]
          ELSE IF kill_ok
          THEN DropJob([polled EXCEPT
                          !.effects = @ \cup {"kill"},
                          !.kills = @ + 1,
                          !.status_message = "Cancellation requested for downloader job.",
                          !.output["downloader"] =
                             append_line(@, Message("Cancellation requested by user (x)."))],
                       "downloader", "abandoned", FALSE)
          ELSE [polled EXCEPT
                  !.effects = @ \cup {"kill"},
                  !.status_message = "Failed to cancel downloader job: <err>"]

\* Defect: the cancel writes its line before it looks at the slot.
cancel_downloader_line_first(S, poll, kill_ok) ==
  LET told == [S EXCEPT !.effects = @ \cup {"cancel"},
                        !.output["downloader"] =
                           append_line(@, Message("Cancellation requested by user (x)."))]
  IN IF S.running["downloader"] = None
     THEN [told EXCEPT !.status_message = "No running downloader job to cancel."]
     ELSE [told EXCEPT !.status_message = "Cancellation requested for downloader job."]

\* cancel_downloader
cancel_downloader(S, poll, kill_ok) ==
  IF S.running["downloader"] = None
  THEN [S EXCEPT !.effects = @ \cup {"cancel"},
                 !.status_message = "No running downloader job to cancel."]
  ELSE LET polled == [S EXCEPT !.effects = @ \cup {"cancel", "try_wait"}]
           status_result == try_wait(S, "downloader", poll)
       IN IF status_result = "Exited"
          THEN [polled EXCEPT !.status_message = "Downloader job is already finishing."]
          ELSE IF status_result = "Err"
          THEN [polled EXCEPT !.status_message = "Failed to inspect downloader process: <err>"]
          ELSE IF kill_ok
          THEN [polled EXCEPT
                  !.effects = @ \cup {"kill"},
                  !.proc["downloader"].killed = @ + 1,
                  !.kills = @ + 1,
                  !.status_message = "Cancellation requested for downloader job.",
                  !.output["downloader"] =
                     append_line(@, Message("Cancellation requested by user (x)."))]
          ELSE [polled EXCEPT
                  !.effects = @ \cup {"kill"},
                  !.status_message = "Failed to cancel downloader job: <err>"]

\* cancel_editor_export, whose code is not in the sources at hand: the cancel
\* of the encoder slot as the specification words it.  Nothing to cancel on a
\* free slot; "already finishing" when the child is gone or a cancel of this
\* Job is pending; else one kill and the line of the cancel.
cancel_editor_export(S, poll, kill_ok) ==
  IF S.running["editor"] = None
  THEN [S EXCEPT !.effects = @ \cup {"cancel"},
                 !.status_message = "No running editor export to cancel."]
  ELSE LET polled == [S EXCEPT !.effects = @ \cup {"cancel", "try_wait"}]
           status_result == try_wait(S, "editor", poll)
       IN IF status_result = "Exited"
          THEN [polled EXCEPT !.status_message = "Editor export is already finishing."]
          ELSE IF status_result = "Err"
          THEN [polled EXCEPT !.status_message = "Failed to inspect ffmpeg process: <err>"]
          ELSE IF S.proc["editor"].killed > 0
          THEN [polled EXCEPT !.status_message = "Editor export is already finishing."]
          ELSE IF kill_ok
          THEN [polled EXCEPT
                  !.effects = @ \cup {"kill"},
                  !.proc["editor"].killed = @ + 1,
                  !.kills = @ + 1,
                  !.status_message = "Cancellation requested for editor export.",
                  !.output["editor"] =
                     append_line(@, Message("Cancellation requested by user (x)."))]
          ELSE [polled EXCEPT
                  !.effects = @ \cup {"kill"},
                  !.status_message = "Failed to cancel editor export: <err>"]

\* Defect: the dialog opens whether or not the tab's job is running.
request_cancel_for_focused_tool_on_idle_slot(S) ==
  [S EXCEPT !.pending_cancel = <<S.right_tab>>]

\* request_cancel_for_focused_tool
request_cancel_for_focused_tool(S) ==
  IF S.right_tab = "Editor" /\ S.running["editor"] # None
  THEN [S EXCEPT !.pending_cancel = <<"Editor">>]
  ELSE IF S.right_tab = "Downloader" /\ S.running["downloader"] # None
  THEN [S EXCEPT !.pending_cancel = <<"Downloader">>]
  ELSE IF S.right_tab = "Editor"
  THEN [S EXCEPT !.pending_cancel = <<>>,
                 !.status_message = "No running editor export to cancel."]
  ELSE [S EXCEPT !.pending_cancel = <<>>,
                 !.status_message = "No running downloader job to cancel."]

\* cancel_pending_cancel
cancel_pending_cancel(S) == [S EXCEPT !.pending_cancel = <<>>]

\* confirm_pending_cancel
confirm_pending_cancel(S, poll, kill_ok) ==
  IF S.pending_cancel = <<>> THEN S
  ELSE LET target == S.pending_cancel[1]
           taken == [S EXCEPT !.pending_cancel = <<>>]
       IN IF target = "Editor" THEN cancel_editor_export(taken, poll, kill_ok)
          ELSE cancel_downloader(taken, poll, kill_ok)

\* select_next_right_tab, with RightTab::next
select_next_right_tab(S) ==
  [S EXCEPT !.right_tab = IF @ = "Editor" THEN "Downloader" ELSE "Editor"]

\* --------------------------------------------------------------- the tick
\* App::tick, its four parts in turn.
\* if self.running_editor.is_some(): spinner, pump, try_finish
tick_running_editor(S, poll_editor, log_ok, refresh_ok) ==
  IF S.running["editor"] # None
  THEN try_finish_running_editor(
         pump_running_events(
           [S EXCEPT !.spinner["editor"] = (@ + 1) % Len(SpinnerFrames)],
           "editor"),
         poll_editor, log_ok, refresh_ok)
  ELSE S

\* if a probe or a download runs: the downloader's spinner
\* Defect: the downloader's spinner is moved on for the download Job only.
tick_downloader_spinner_job_only(S) ==
  IF S.running["downloader"] # None
  THEN [S EXCEPT !.spinner["downloader"] = (@ + 1) % Len(SpinnerFrames)]
  ELSE S

tick_downloader_spinner(S) ==
  IF S.probe # None \/ S.running["downloader"] # None
  THEN [S EXCEPT !.spinner["downloader"] = (@ + 1) % Len(SpinnerFrames)]
  ELSE S

\* if self.running_downloader.is_some(): pump, try_finish
tick_running_downloader(S, poll_downloader, refresh_ok) ==
  IF S.running["downloader"] # None
  THEN try_finish_running_downloader(pump_running_events(S, "downloader"),
                                     poll_downloader, refresh_ok)
  ELSE S

\* App::tick
tick(S, poll_editor, poll_downloader, log_ok, refresh_ok) ==
  tick_running_downloader(
    try_finish_running_downloader_probe(
      tick_downloader_spinner(
        tick_running_editor(S, poll_editor, log_ok, refresh_ok))),
    poll_downloader, refresh_ok)

\* ------------------------------------------------- main-thread actions
\* The loop of run(): tick, draw, then poll for a key for at most 100 ms and
\* handle it.  A handler runs only when the main thread is not inside a
\* blocking call.
MainReady == main_wait = "none"
AtTick == MainReady /\ loop_pc = "tick"
AtPoll == MainReady /\ loop_pc = "poll"
\* The key goes to the form or output pane of the right tab: no dialog is open.
KeyToPane(tab) == AtPoll /\ pending_cancel = <<>> /\ right_tab = tab

PollResults == {"ok", "err"}
\* The outcomes of a call the handler makes only in some states.
Outcomes(called, outcomes, unused) == IF called THEN outcomes ELSE {unused}
Exited(s) == running[s] # None /\ proc[s].state = "exited"

MainFrame == UNCHANGED <<available, downloader_url, bytes_written, disk, requested, resolved>>

\* The failures among the outcomes chosen for a handler, and their budget.
Failed(ok) == IF ok THEN 0 ELSE 1
PollFailed(poll) == IF poll = "err" THEN 1 ELSE 0
Inject(n) == faults + n <= MaxFaults /\ faults' = faults + n

Tick ==
  /\ AtTick
  /\ \E poll_editor \in Outcomes(running["editor"] # None, PollResults, "ok"),
        poll_downloader \in Outcomes(running["downloader"] # None, PollResults, "ok"),
        log_ok \in Outcomes(Exited("editor"), BOOLEAN, TRUE),
        refresh_ok \in Outcomes(\E s \in JobSlots : Exited(s) /\ proc[s].status = "success",
                                BOOLEAN, TRUE) :
       /\ Inject(PollFailed(poll_editor) + PollFailed(poll_downloader)
                 + Failed(log_ok) + Failed(refresh_ok))
       /\ Commit(tick(Cur, poll_editor, poll_downloader, log_ok, refresh_ok))
  /\ loop_pc' = "poll"
  /\ MainFrame
  /\ UNCHANGED <<spawns, probes>>

\* event::poll times out, or the key is one that changes nothing.
PollTimeout ==
  /\ AtPoll
  /\ loop_pc' = "tick"
  /\ UNCHANGED <<running, running_downloader_probe, output, spinner, status_message,
                 right_tab, pending_cancel, available, downloader_url, downloader_step,
                 downloader_quality_choices, downloader_quality_index,
                 downloader_option_focus, run_log, main_wait, chan, proc, pipe, reader,
                 probe_thread, probe_chan, shown, effects, disk, requested, resolved,
                 spawns, probes, kills, bytes_written, faults>>

RunEditorExport ==
  /\ KeyToPane("Editor")
  /\ \E form_valid \in BOOLEAN :
       LET spawning == EditorSpawns(Cur, available["editor"], form_valid)
       IN \E spawn_ok \in Outcomes(spawning, BOOLEAN, TRUE) :
          \E log_ok \in Outcomes(spawning /\ ~spawn_ok, BOOLEAN, TRUE) :
            /\ spawning => spawns < MaxJobs
            /\ Inject(Failed(spawn_ok) + Failed(log_ok))
            /\ Commit(run_editor_export(Cur, available["editor"], form_valid, spawn_ok, log_ok))
            /\ spawns' = IF spawning THEN spawns + 1 ELSE spawns
  /\ loop_pc' = "tick"
  /\ MainFrame
  /\ UNCHANGED probes

DownloaderPressEnter ==
  /\ KeyToPane("Downloader")
  /\ LET after == downloader_press_enter(Cur, available["downloader"], downloader_url)
         waiting == after.main_wait # "none"
         probing == after.probe # None /\ running_downloader_probe = None
     IN /\ waiting => spawns < MaxJobs
        /\ probing => probes < MaxProbes
        /\ Commit(after)
        /\ spawns' = IF waiting THEN spawns + 1 ELSE spawns
        /\ probes' = IF probing THEN probes + 1 ELSE probes
  /\ loop_pc' = "tick"
  /\ MainFrame
  /\ UNCHANGED faults

\* resolve_downloader_output_path returns: its yt-dlp process has ended.
ResolveDownloaderOutputPathReturns ==
  /\ main_wait = "resolve_downloader_output_path"
  /\ \E resolved_ok \in BOOLEAN :
       \E spawn_ok \in Outcomes(resolved_ok /\ ResolvedOutputPath(Cur, "downloader") # <<>>,
                                BOOLEAN, TRUE) :
         /\ Inject(Failed(resolved_ok) + Failed(spawn_ok))
         /\ Commit(run_downloader_download_resolved(Cur, resolved_ok, spawn_ok))
  /\ MainFrame
  /\ UNCHANGED <<loop_pc, spawns, probes>>

NextDownloaderOptionFocus ==
  /\ KeyToPane("Downloader")
  /\ downloader_step = "QualitySelect"
  /\ Commit(next_downloader_option_focus(Cur))
  /\ loop_pc' = "tick"
  /\ MainFrame
  /\ UNCHANGED <<spawns, probes, faults>>

\* push_downloader_url_char in the UrlInput step, for a URL of one character.
PushDownloaderUrlChar ==
  /\ KeyToPane("Downloader")
  /\ downloader_step = "UrlInput"
  /\ downloader_url = ""
  /\ downloader_url' = "u"
  /\ effects' = {}
  /\ loop_pc' = "tick"
  /\ UNCHANGED <<running, running_downloader_probe, output, spinner, status_message,
                 right_tab, pending_cancel, available, downloader_step,
                 downloader_quality_choices, downloader_quality_index,
                 downloader_option_focus, run_log, main_wait, chan, proc, pipe, reader,
                 probe_thread, probe_chan, shown, disk, requested, resolved,
                 spawns, probes, kills, bytes_written, faults>>

\* 'x' in the output pane of the right tab
RequestCancelForFocusedTool ==
  /\ AtPoll
  /\ pending_cancel = <<>>
  /\ Commit(request_cancel_for_focused_tool(Cur))
  /\ loop_pc' = "tick"
  /\ MainFrame
  /\ UNCHANGED <<spawns, probes, faults>>

\* Enter or 'y' while the cancel dialog is open
ConfirmPendingCancel ==
  /\ AtPoll
  /\ pending_cancel # <<>>
  /\ LET s == IF pending_cancel[1] = "Editor" THEN "editor" ELSE "downloader"
     IN \E poll \in Outcomes(running[s] # None, PollResults, "ok") :
        \E kill_ok \in Outcomes(/\ running[s] # None /\ poll = "ok"
                                /\ proc[s].state = "alive"
                                /\ (s = "editor" => proc[s].killed = 0),
                                BOOLEAN, TRUE) :
          LET after == confirm_pending_cancel(Cur, poll, kill_ok)
          IN /\ after.kills # kills => kills < MaxKills
             /\ Inject(PollFailed(poll) + Failed(kill_ok))
             /\ Commit(after)
  /\ loop_pc' = "tick"
  /\ MainFrame
  /\ UNCHANGED <<spawns, probes>>

\* Esc or 'n' while the cancel dialog is open
CancelPendingCancel ==
  /\ AtPoll
  /\ pending_cancel # <<>>
  /\ Commit(cancel_pending_cancel(Cur))
  /\ loop_pc' = "tick"
  /\ MainFrame
  /\ UNCHANGED <<spawns, probes, faults>>

\* Ctrl+n
SelectNextRightTab ==
  /\ AtPoll
  /\ pending_cancel = <<>>
  /\ Commit(select_next_right_tab(Cur))
  /\ loop_pc' = "tick"
  /\ MainFrame
  /\ UNCHANGED <<spawns, probes, faults>>

\* ------------------------------------- the children, readers, probe thread
ThreadFrame ==
  UNCHANGED <<running, running_downloader_probe, output, spinner, status_message,
              right_tab, pending_cancel, loop_pc,
              available, downloader_url, downloader_step, downloader_quality_choices,
              downloader_quality_index, downloader_option_focus, run_log, main_wait,
              effects, disk, requested, resolved, spawns, probes, kills>>

\* The child writes the next byte to one of its streams.
ChildWrite(s, st) ==
  /\ proc[s].state = "alive"
  /\ bytes_written < MaxBytes
  /\ LET b == ToolScript[(Len(shown[s].written[st]) % Len(ToolScript)) + 1]
     IN /\ pipe' = [pipe EXCEPT ![s][st] = Append(@, b)]
        /\ shown' = [shown EXCEPT ![s].written[st] = Append(@, b)]
  /\ bytes_written' = bytes_written + 1
  /\ ThreadFrame
  /\ UNCHANGED <<chan, proc, reader, probe_thread, probe_chan, faults>>

\* The child ends: by itself with either status or, once killed, by the signal.
\* Its ends of the pipes close with it.
ChildExit(s, status) ==
  /\ proc[s].state = "alive"
  /\ status = "signal" => proc[s].killed > 0
  /\ proc' = [proc EXCEPT ![s].state = "exited", ![s].status = status]
  /\ ThreadFrame
  /\ UNCHANGED <<chan, pipe, reader, probe_thread, probe_chan, shown, bytes_written, faults>>

\* spawn_ffmpeg_reader / spawn_downloader_reader, one turn of the loop:
\* reader.read(&mut buf) returns n > 0 bytes, which are sent as one Chunk, or it
\* returns 0 at end of stream and the reader ends.  The read and the send are
\* one step: nobody else sees the bytes between the two.
ReaderReads(s, st) ==
  /\ reader[s][st].pc = "read"
  /\ IF pipe[s][st] # <<>>
     THEN LET n == Min(Len(pipe[s][st]), READ_BUF)
          IN /\ chan' = [chan EXCEPT ![s] = Append(@, Chunk(st, SubSeq(pipe[s][st], 1, n)))]
             /\ pipe' = [pipe EXCEPT ![s][st] = SubSeq(@, n + 1, Len(@))]
             /\ reader' = reader
     ELSE /\ proc[s].state = "exited"
          /\ reader' = [reader EXCEPT ![s][st].pc = "done"]
          /\ UNCHANGED <<chan, pipe>>
  /\ ThreadFrame
  /\ UNCHANGED <<proc, probe_thread, probe_chan, shown, bytes_written, faults>>

\* Defect: the reader sends the error and goes on with its loop.
ReaderFailsAndRetries(s, st) ==
  /\ reader[s][st].pc = "read"
  /\ Inject(1)
  /\ chan' = [chan EXCEPT ![s] = Append(@, ReaderError(st))]
  /\ ThreadFrame
  /\ UNCHANGED <<proc, pipe, reader, probe_thread, probe_chan, shown, bytes_written>>

\* ... the read fails: one ReaderError event, and the reader ends.
ReaderFails(s, st) ==
  /\ reader[s][st].pc = "read"
  /\ Inject(1)
  /\ chan' = [chan EXCEPT ![s] = Append(@, ReaderError(st))]
  /\ reader' = [reader EXCEPT ![s][st].pc = "done"]
  /\ ThreadFrame
  /\ UNCHANGED <<proc, pipe, probe_thread, probe_chan, shown, bytes_written>>

\* The probe thread: probe_downloader_qualities returns and the result is sent.
ProbeThreadSends ==
  /\ probe_thread = "running"
  /\ \E result \in ProbeResults :
       /\ Inject(Failed(result.ok))
       /\ probe_chan' = <<result>>
  /\ probe_thread' = "done"
  /\ ThreadFrame
  /\ UNCHANGED <<chan, proc, pipe, reader, shown, bytes_written>>

\* The probe thread ends without a result (probe_downloader_qualities
\* panicked): the sender is dropped with nothing sent.
ProbeThreadPanics ==
  /\ probe_thread = "running"
  /\ Inject(1)
  /\ probe_thread' = "done"
  /\ ThreadFrame
  /\ UNCHANGED <<chan, proc, pipe, reader, probe_chan, shown, bytes_written>>

\* ------------------------------------------------------- specifications
\* Everything the program does.
Next ==
  \/ Tick
  \/ PollTimeout
  \/ RunEditorExport
  \/ DownloaderPressEnter
  \/ ResolveDownloaderOutputPathReturns
  \/ NextDownloaderOptionFocus
  \/ PushDownloaderUrlChar
  \/ RequestCancelForFocusedTool
  \/ ConfirmPendingCancel
  \/ CancelPendingCancel
  \/ SelectNextRightTab
  \/ \E s \in JobSlots, st \in Streams : ChildWrite(s, st)
  \/ \E s \in JobSlots, status \in {"success", "failure", "signal"} : ChildExit(s, status)
  \/ \E s \in JobSlots, st \in Streams : ReaderReads(s, st)
  \/ \E s \in JobSlots, st \in Streams : ReaderFails(s, st)
  \/ ProbeThreadSends
  \/ ProbeThreadPanics

Spec == Init /\ [][Next]_vars

\* A session on one tab: the user picks the tab when the program has started
\* (select_next_right_tab changes right_tab and nothing else) and stays on it.
\* The tool of the other tab is never asked for; it is taken as installed.
SlotOfTab(tab) == IF tab = "Editor" THEN "editor" ELSE "downloader"
InitOnTab ==
  \E tab \in RightTabs :
    /\ InitApp(tab)
    /\ \A s \in JobSlots \ {SlotOfTab(tab)} : available[s]

\* A session on one tab in which the user starts jobs and lets them run: the
\* cancel key is not pressed.  The tools write output.
NextWatching ==
  \/ Tick
  \/ PollTimeout
  \/ RunEditorExport
  \/ DownloaderPressEnter
  \/ ResolveDownloaderOutputPathReturns
  \/ NextDownloaderOptionFocus
  \/ PushDownloaderUrlChar
  \/ \E s \in JobSlots, st \in Streams : ChildWrite(s, st)
  \/ \E s \in JobSlots, status \in {"success", "failure"} : ChildExit(s, status)
  \/ \E s \in JobSlots, st \in Streams : ReaderReads(s, st)
  \/ \E s \in JobSlots, st \in Streams : ReaderFails(s, st)
  \/ ProbeThreadSends

SpecWatching == InitOnTab /\ [][NextWatching]_vars

\* A session on one tab in which the user starts jobs and cancels them, and the
\* tools write nothing to their streams before they end.
NextCancelling ==
  \/ Tick
  \/ PollTimeout
  \/ RunEditorExport
  \/ DownloaderPressEnter
  \/ ResolveDownloaderOutputPathReturns
  \/ NextDownloaderOptionFocus
  \/ PushDownloaderUrlChar
  \/ RequestCancelForFocusedTool
  \/ ConfirmPendingCancel
  \/ CancelPendingCancel
  \/ \E s \in JobSlots, status \in {"success", "failure", "signal"} : ChildExit(s, status)
  \/ \E s \in JobSlots, st \in Streams : ReaderReads(s, st)
  \/ \E s \in JobSlots, st \in Streams : ReaderFails(s, st)
  \/ ProbeThreadSends

SpecCancelling == InitOnTab /\ [][NextCancelling]_vars

\* ------------------------------------------- the ToolOutput under scrolling
\* Defect: any scroll_down makes the pane follow the tail again.
scroll_down_always_following(out) ==
  [out EXCEPT !.scroll = Min(@ + 1, out.last_max_scroll_top), !.follow_tail = TRUE]

\* ToolOutput::scroll_down
scroll_down(out) ==
  LET max_scroll == out.last_max_scroll_top
      next == Min(out.scroll + 1, max_scroll)
  IN [out EXCEPT !.scroll = next,
                 !.follow_tail = IF next >= max_scroll THEN TRUE ELSE @]

\* ToolOutput::scroll_up
scroll_up(out) ==
  [out EXCEPT !.scroll = SatSub(@, 1), !.follow_tail = FALSE]

\* ToolOutput::page_down
page_down(out) ==
  LET max_scroll == out.last_max_scroll_top
      next == Min(out.scroll + PAGE_STEP, max_scroll)
  IN [out EXCEPT !.scroll = next,
                 !.follow_tail = IF next >= max_scroll THEN TRUE ELSE @]

\* ToolOutput::page_up
page_up(out) ==
  [out EXCEPT !.scroll = SatSub(@, PAGE_STEP), !.follow_tail = FALSE]

\* ToolOutput::clamped_scroll_for_viewport: the ToolOutput it leaves (scroll
\* and last_max_scroll_top are Cells); the value returned is its scroll.
clamped_scroll_for_viewport(out, visible_line_count) ==
  LET visible == IF visible_line_count >= 1 THEN visible_line_count ELSE 1
      max_scroll_top == SatSub(Len(out.lines), visible)
  IN [out EXCEPT !.last_max_scroll_top = max_scroll_top,
                 !.scroll = Min(@, max_scroll_top)]

\* A session at the output pane of the Downloader tab: each turn of the loop
\* the tick hands the ToolOutput the lines that arrived, the draw renders the
\* pane (render_downloader_output) and one key is handled.  The lines of the
\* tool are numbered in the order they arrive, so that they can be told apart.
WatchedSlot == "downloader"
\* Heights of the pane's text area, in lines.
ViewportHeights == {1, 20}
NumberedLine(n) == [text |-> <<n>>, msg |-> ""]
\* The number of a line of the tool; 0 for the header lines.
Serial(l) == IF l.text = <<>> THEN 0 ELSE l.text[1]
LastSerial(out) == IF out.lines = <<>> THEN 0 ELSE Serial(out.lines[Len(out.lines)])
\* The ToolOutput of a long job one line below the cap: begin_stream, then
\* MAX_LINES - 3 lines appended; the pane follows the tail, or the user has
\* scrolled it up to the first line.
LongToolOutput(at_top) ==
  [lines |-> [i \in 1..(MAX_LINES - 1) |->
                IF i = 1 THEN CommandLine(CommandOf(WatchedSlot))
                ELSE IF i = 2 THEN Message(StreamingMessage(WatchedSlot))
                ELSE [kind |-> "prefixed", stream |-> "stdout", text |-> <<i - 2>>, msg |-> ""]],
   scroll |-> IF at_top THEN 0 ELSE MAX_LINES - 2,
   last_max_scroll_top |-> MAX_LINES - 2,
   follow_tail |-> ~at_top]

InitToolOutput ==
  /\ right_tab = "Downloader"
  /\ pending_cancel = <<>>
  /\ loop_pc = "tick"
  /\ running = [s \in JobSlots |-> None]
  /\ running_downloader_probe = None
  /\ \E at_top \in BOOLEAN :
       output = [s \in JobSlots |-> IF s = WatchedSlot THEN LongToolOutput(at_top)
                                    ELSE ToolOutputEmpty]
  /\ spinner = [s \in JobSlots |-> 0]
  /\ status_message = "Select a media file in the left pane."
  /\ available = [s \in JobSlots |-> TRUE]
  /\ downloader_url = "u"
  /\ downloader_step = "QualitySelect"
  /\ downloader_quality_choices = <<default_downloader_quality_choice>>
  /\ downloader_quality_index = 0
  /\ downloader_option_focus = <<>>
  /\ run_log = <<>>
  /\ main_wait = "none"
  /\ chan = [s \in JobSlots |-> <<>>]
  /\ proc = [s \in JobSlots |-> NoProc]
  /\ pipe = [s \in JobSlots |-> NoBytes]
  /\ reader = [s \in JobSlots |-> NoReaders]
  /\ probe_thread = "none"
  /\ probe_chan = <<>>
  /\ shown = [s \in JobSlots |-> NothingShown]
  /\ effects = {}
  /\ spawns = 0
  /\ probes = 0
  /\ kills = 0
  /\ bytes_written = 0
  /\ faults = 0
  /\ EmptyDisk

OutputFrame ==
  UNCHANGED <<running, running_downloader_probe, spinner, status_message,
              right_tab, pending_cancel, available, downloader_url, downloader_step,
              downloader_quality_choices, downloader_quality_index,
              downloader_option_focus, run_log, main_wait, chan, proc, pipe, reader,
              probe_thread, probe_chan, shown, disk, requested, resolved,
              spawns, probes, kills, bytes_written, faults>>

\* Lines still to come: MaxAppends of them to a ToolOutput near the cap, and
\* to one that was reset.
MayAppend(out) ==
  IF Len(out.lines) >= MAX_LINES - 1
  THEN LastSerial(out) < MAX_LINES - 3 + MaxAppends
  ELSE LastSerial(out) < MaxAppends

\* The tick and the draw of one turn: the next line of the tool, if one
\* arrived, goes through append_stream_line; then the pane is rendered.
OutputTickAndDraw ==
  /\ loop_pc = "tick"
  /\ \E arrived \in Outcomes(MayAppend(output[WatchedSlot]), BOOLEAN, FALSE),
        visible_line_count \in ViewportHeights :
       LET out == output[WatchedSlot]
           fed == IF arrived
                  THEN append_prefixed(out, "stdout", NumberedLine(LastSerial(out) + 1))
                  ELSE out
       IN /\ output' = [output EXCEPT ![WatchedSlot] =
                          clamped_scroll_for_viewport(fed, visible_line_count)]
          /\ effects' = IF arrived THEN {"append_line"} ELSE {}
  /\ loop_pc' = "poll"
  /\ OutputFrame

\* The user keeps the pane within MaxScrollBack lines of an end of the buffer.
NearAnEnd(out) ==
  \/ out.scroll <= MaxScrollBack
  \/ out.scroll + MaxScrollBack >= out.last_max_scroll_top

\* The handler of a key that acts on the ToolOutput of the pane.
OutputKey(after, what) ==
  /\ loop_pc = "poll"
  /\ NearAnEnd(after)
  /\ output' = [output EXCEPT ![WatchedSlot] = after]
  /\ effects' = {what}
  /\ loop_pc' = "tick"
  /\ OutputFrame

\* Down or 'j', Up or 'k', 'd' or 'p', 'u' in the output pane
ScrollDownloaderOutputDown == OutputKey(scroll_down(output[WatchedSlot]), "scroll_down")
ScrollDownloaderOutputUp == OutputKey(scroll_up(output[WatchedSlot]), "scroll_up")
PageDownloaderOutputDown == OutputKey(page_down(output[WatchedSlot]), "page_down")
PageDownloaderOutputUp == OutputKey(page_up(output[WatchedSlot]), "page_up")
\* A start that spawns (start_downloader_job) and one that fails to.
OutputBeginStream ==
  OutputKey(begin_stream(output[WatchedSlot], CommandOf(WatchedSlot),
                         StreamingMessage(WatchedSlot)), "begin_stream")
OutputReplaceWithCommandError ==
  OutputKey(replace_with_command_error(output[WatchedSlot], CommandOf(WatchedSlot),
                                       "Failed to start Downloader: <err>"),
            "replace_with_command_error")

NextToolOutput ==
  \/ OutputTickAndDraw
  \/ PollTimeout
  \/ ScrollDownloaderOutputDown
  \/ ScrollDownloaderOutputUp
  \/ PageDownloaderOutputDown
  \/ PageDownloaderOutputUp
  \/ OutputBeginStream
  \/ OutputReplaceWithCommandError

SpecToolOutput == InitToolOutput /\ [][NextToolOutput]_vars

\* ------------------------------------- the ToolOutput under any calls
\* The operations of the ToolOutput called in any order, as its interface
\* allows: no draw is bound to stand between two of them.
OutputCall(after, what) ==
  /\ NearAnEnd(after)
  /\ output' = [output EXCEPT ![WatchedSlot] = after]
  /\ effects' = {what}
  /\ UNCHANGED loop_pc
  /\ OutputFrame

CallBeginStream ==
  OutputCall(begin_stream(output[WatchedSlot], CommandOf(WatchedSlot),
                          StreamingMessage(WatchedSlot)), "begin_stream")
CallReplaceWithCommandError ==
  OutputCall(replace_with_command_error(output[WatchedSlot], CommandOf(WatchedSlot),
                                        "Failed to start Downloader: <err>"),
             "replace_with_command_error")
CallAppendPrefixed ==
  /\ MayAppend(output[WatchedSlot])
  /\ OutputCall(append_prefixed(output[WatchedSlot], "stdout",
                                NumberedLine(LastSerial(output[WatchedSlot]) + 1)),
                "append_line")
CallScrollDown == OutputCall(scroll_down(output[WatchedSlot]), "scroll_down")
CallScrollUp == OutputCall(scroll_up(output[WatchedSlot]), "scroll_up")
CallPageDown == OutputCall(page_down(output[WatchedSlot]), "page_down")
CallPageUp == OutputCall(page_up(output[WatchedSlot]), "page_up")
CallClampedScrollForViewport ==
  \E visible_line_count \in ViewportHeights :
    OutputCall(clamped_scroll_for_viewport(output[WatchedSlot], visible_line_count),
               "clamped_scroll_for_viewport")

NextToolOutputCalls ==
  \/ CallBeginStream
  \/ CallReplaceWithCommandError
  \/ CallAppendPrefixed
  \/ CallScrollDown
  \/ CallScrollUp
  \/ CallPageDown
  \/ CallPageUp
  \/ CallClampedScrollForViewport

SpecToolOutputCalls == InitToolOutput /\ [][NextToolOutputCalls]_vars

\* --------------------------------------- the Assembler under split reads
\* The bytes a child writes: a letter, the two delimiters, and the two bytes
\* of U+00E9.
InputBytes == {97, 10, 13, 195, 169}
Inputs == UNION {[1..n -> InputBytes] : n \in 0..MaxInput}

\* A job of slot `slot` has just been started (StartJob), and its child has
\* written `input` to stream `stream`; nothing has been read yet.  The fault
\* budget is spent: every call of this session succeeds.  `started` is the
\* number of starts counted against MaxJobs so far.
JobWritten(slot, stream, input, started) ==
    LET written == [NoBytes EXCEPT ![stream] = input]
    IN /\ right_tab = IF slot = "editor" THEN "Editor" ELSE "Downloader"
       /\ pending_cancel = <<>>
       /\ loop_pc = "tick"
       /\ running = [s \in JobSlots |->
                       IF s = slot
                       THEN [command_line |-> CommandOf(s), raw |-> NoBytes, pending |-> NoBytes,
                             output_path |-> RequestedAtStart[s]]
                       ELSE None]
       /\ running_downloader_probe = None
       /\ output = [s \in JobSlots |->
                      IF s = slot
                      THEN begin_stream(ToolOutputEmpty, CommandOf(s), StreamingMessage(s))
                      ELSE ToolOutputEmpty]
       /\ spinner = [s \in JobSlots |-> 0]
       /\ status_message = IF slot = "editor" THEN "Running ffmpeg -> <path>"
                           ELSE "Running Downloader (<mode>) -> <path>"
       /\ available = [s \in JobSlots |-> TRUE]
       /\ downloader_url = IF slot = "editor" THEN "" ELSE "u"
       /\ downloader_step = IF slot = "editor" THEN "UrlInput" ELSE "QualitySelect"
       /\ downloader_quality_choices = <<default_downloader_quality_choice>>
       /\ downloader_quality_index = 0
       /\ downloader_option_focus = <<>>
       /\ run_log = <<>>
       /\ main_wait = "none"
       /\ chan = [s \in JobSlots |-> <<>>]
       /\ proc = [s \in JobSlots |->
                    IF s = slot THEN [state |-> "alive", status |-> "", killed |-> 0]
                    ELSE NoProc]
       /\ pipe = [s \in JobSlots |-> IF s = slot THEN written ELSE NoBytes]
       /\ reader = [s \in JobSlots |->
                      IF s = slot THEN [st \in Streams |-> [pc |-> "read"]] ELSE NoReaders]
       /\ probe_thread = "none"
       /\ probe_chan = <<>>
       /\ shown = [s \in JobSlots |->
                     IF s = slot
                     THEN [job |-> "running", written |-> written, raw |-> NoBytes,
                           flushed |-> FALSE, detail |-> <<>>]
                     ELSE NothingShown]
       /\ effects = {}
       /\ spawns = started
       /\ probes = 0
       /\ kills = 0
       /\ bytes_written = Len(input)
       /\ faults = MaxFaults
       /\ EmptyDisk

JobHasWritten(slot, stream, input) == JobWritten(slot, stream, input, 1)

InitAssembling ==
  \E slot \in JobSlots, stream \in Streams, input \in Inputs :
    JobHasWritten(slot, stream, input)

\* spawn_ffmpeg_reader / spawn_downloader_reader, one turn of the loop in
\* which reader.read(&mut buf) returns some n > 0 of the bytes written, not
\* necessarily all of them, and they are sent as one Chunk.
ReaderReadsPart(s, st) ==
  /\ reader[s][st].pc = "read"
  /\ pipe[s][st] # <<>>
  /\ \E n \in 1..Min(Len(pipe[s][st]), READ_BUF) :
       /\ chan' = [chan EXCEPT ![s] = Append(@, Chunk(st, SubSeq(pipe[s][st], 1, n)))]
       /\ pipe' = [pipe EXCEPT ![s][st] = SubSeq(@, n + 1, Len(@))]
  /\ ThreadFrame
  /\ UNCHANGED <<proc, reader, probe_thread, probe_chan, shown, bytes_written, faults>>

NextAssembling ==
  \/ Tick
  \/ PollTimeout
  \/ \E s \in JobSlots, st \in Streams : ReaderReadsPart(s, st)
  \/ \E s \in JobSlots : ChildExit(s, "success")

SpecAssembling == InitAssembling /\ [][NextAssembling]_vars

\* ------------------------------------------ the summary of a failed job
ErrorLine == <<97>>
OtherLine == <<98>>
\* What a child has written to stderr when it exits.
AllStderrTexts ==
  <<<<>>,
    <<10>>,
    <<32, 10, 13, 10>>,
    ErrorLine,
    ErrorLine \o <<10>>,
    <<32>> \o ErrorLine \o <<32, 13, 10>>,
    CONVERSION_FAILED,
    CONVERSION_FAILED \o <<10>>,
    <<32>> \o CONVERSION_FAILED \o <<32, 13, 10>>,
    ErrorLine \o <<10>> \o CONVERSION_FAILED \o <<10>>,
    CONVERSION_FAILED \o <<10>> \o ErrorLine \o <<10>>,
    CONVERSION_FAILED \o <<10>> \o CONVERSION_FAILED \o <<10>>,
    ErrorLine \o <<10>> \o CONVERSION_FAILED \o <<10, 10, 32, 10>>,
    ErrorLine \o <<13>> \o CONVERSION_FAILED,
    CONVERSION_FAILED \o ErrorLine,
    ErrorLine \o <<10>> \o OtherLine \o <<10>>,
    ErrorLine \o <<10, 195, 169, 10>>,
    ErrorLine \o <<10, 195, 10>>,
    ErrorLine \o <<10, 194, 160, 10>>,
    CONVERSION_FAILED \o <<194, 160, 10>>,
    ErrorLine \o <<10, 32>> \o CONVERSION_FAILED \o <<32>>,
    <<13>> \o CONVERSION_FAILED \o <<13, 10>>,
    ErrorLine \o <<10>> \o OtherLine \o <<10>> \o CONVERSION_FAILED \o <<10>> \o CONVERSION_FAILED,
    <<9>> \o ErrorLine \o <<32>> \o OtherLine \o <<9, 10>>>>
StderrTexts == {AllStderrTexts[i] : i \in 1..Len(AllStderrTexts)}

\* A job has just been started and its child has written one of the texts to
\* stderr; the child then exits, and the reader and the main loop run in any
\* order.
InitSummarizing ==
  \E slot \in JobSlots, input \in StderrTexts : JobHasWritten(slot, "stderr", input)

NextSummarizing ==
  \/ Tick
  \/ PollTimeout
  \/ \E s \in JobSlots, st \in Streams : ReaderReads(s, st)
  \/ \E s \in JobSlots : ChildExit(s, "failure")
  \/ \E s \in JobSlots : ChildExit(s, "success")

SpecSummarizing == InitSummarizing /\ [][NextSummarizing]_vars

\* ------------------------------------------- the parser under transcripts
HeaderLine == <<"I", "D", " ", " ", "E", "X", "T", " ", "R", "E", "S", "O", "L", "U", "T", "I", "O", "N", " ", "F", "P", "S", " ", "F", "I", "L", "E", "S", "I", "Z", "E">>
\* The lines yt-dlp -F prints under the header, and lines the parser skips.
AllTableLines ==
  <<<<"1", "8", " ", "m", "p", "4", " ", "6", "4", "0", "x", "3", "6", "0", " ", "2", "5", " ", "1", "M", "i", "B">>,
    <<"1", "3", "7", " ", "m", "p", "4", " ", "1", "9", "2", "0", "x", "1", "0", "8", "0", " ", "v", "i", "d", "e", "o", " ", "o", "n", "l", "y">>,
    <<"2", "2", " ", "m", "p", "4", " ", "1", "2", "8", "0", "x", "7", "2", "0", " ", "2", "K", "i", "B">>,
    <<" ", " ", "2", "9", "9", " ", "m", "p", "4", " ", "[", "1", "9", "2", "0", "x", "1", "0", "8", "0", "]", ",", " ", "3", "0", "f", "p", "s", " ", "~", "1", ".", "5", "K", "i", "B", " ", "v", "i", "d", "e", "o", " ", "o", "n", "l", "y">>,
    <<"1", "7", " ", "3", "g", "p", " ", "1", "7", "6", "x", "1", "4", "4", " ", "1", "M", "i", "B">>,
    <<"1", "8", " ", "w", "e", "b", "m", " ", "6", "4", "0", "x", "3", "6", "0">>,
    <<"b", "e", "s", "t", "v", "i", "d", "e", "o", " ", "m", "p", "4", " ", "1", "x", "1", " ", "v", "i", "d", "e", "o", " ", "o", "n", "l", "y">>,
    <<"6", "4", "0", "x", "4", "8", "0", " ", "m", "p", "4">>,
    <<"1", "4", "0", " ", "m", "4", "a", " ", "a", "u", "d", "i", "o", " ", "o", "n", "l", "y", " ", "3", "K", "i", "B">>,
    <<"s", "b", "0", " ", "m", "h", "t", "m", "l", " ", "4", "8", "x", "2", "7", " ", "s", "t", "o", "r", "y", "b", "o", "a", "r", "d">>,
    <<"a", "+", "b", " ", "m", "p", "4", " ", "6", "4", "0", "x", "3", "6", "0">>,
    <<"3", "0", "3", " ", "w", "e", "b", "m", " ", "2", "K", "i", "B">>,
    <<"1", "8">>,
    <<"-", "-", "-", " ", "9", " ", "m", "p", "4", " ", "1", "x", "1">>,
    <<" ">>>>
TableLines == {AllTableLines[i] : i \in 1..Len(AllTableLines)}

RECURSIVE DecimalText(_)
DecimalText(n) ==
  IF n < 10 THEN <<AsciiDigits[n + 1]>>
  ELSE Append(DecimalText(n \div 10), AsciiDigits[(n % 10) + 1])
\* Row i of a long table: its identifier is i and its size falls as i grows;
\* with `holes`, every tenth row is an audio-only one.
LongRow(i, holes) ==
  IF holes /\ i % 10 = 0
  THEN DecimalText(i) \o <<" ", "m", "4", "a", " ", "a", "u", "d", "i", "o", " ", "o", "n", "l", "y">>
  ELSE DecimalText(i) \o <<" ", "m", "p", "4", " ", "6", "4", "0", "x", "3", "6", "0", " ">> \o DecimalText(200 - i) \o <<"B">>
LongTable(n, holes) == <<HeaderLine>> \o [i \in 1..n |-> LongRow(i, holes)]
Reversed(s) == [i \in 1..Len(s) |-> s[Len(s) + 1 - i]]
MixedTables == {<<HeaderLine>> \o AllTableLines, <<HeaderLine>> \o Reversed(AllTableLines)}
LongTables ==
  {LongTable(CANDIDATE_CAP + 1, FALSE), LongTable(CANDIDATE_CAP + 10, TRUE)}

ShortTables ==
  {(IF header THEN <<HeaderLine>> ELSE <<>>) \o rows :
     header \in BOOLEAN, rows \in UNION {[1..n -> TableLines] : n \in 0..MaxRows}}
Transcripts == ShortTables \cup MixedTables \cup LongTables

\* The lines of the standard output of the probe's `yt-dlp -F <url>`.
Transcript == pipe["downloader"]["stdout"]

\* fetch_downloader_qualities has started the probe thread for a URL, and
\* the yt-dlp it runs will print `transcript`.  The fault budget is spent:
\* yt-dlp runs and succeeds.
InitParsing ==
  \E transcript \in Transcripts :
    /\ right_tab = "Downloader"
    /\ pending_cancel = <<>>
    /\ loop_pc = "tick"
    /\ running = [s \in JobSlots |-> None]
    /\ running_downloader_probe = [command_line |-> ProbeCommand]
    /\ output = [s \in JobSlots |->
                   IF s = "downloader"
                   THEN begin_stream(ToolOutputEmpty, ProbeCommand, "Fetching quality options...")
                   ELSE ToolOutputEmpty]
    /\ spinner = [s \in JobSlots |-> 0]
    /\ status_message = "Fetching available downloader qualities..."
    /\ available = [s \in JobSlots |-> TRUE]
    /\ downloader_url = "u"
    /\ downloader_step = "UrlInput"
    /\ downloader_quality_choices = <<default_downloader_quality_choice>>
    /\ downloader_quality_index = 0
    /\ downloader_option_focus = <<>>
    /\ run_log = <<>>
    /\ main_wait = "none"
    /\ chan = [s \in JobSlots |-> <<>>]
    /\ proc = [s \in JobSlots |-> NoProc]
    /\ pipe = [s \in JobSlots |->
                 IF s = "downloader" THEN [NoBytes EXCEPT !["stdout"] = transcript]
                 ELSE NoBytes]
    /\ reader = [s \in JobSlots |-> NoReaders]
    /\ probe_thread = "running"
    /\ probe_chan = <<>>
    /\ shown = [s \in JobSlots |-> NothingShown]
    /\ effects = {}
    /\ spawns = 0
    /\ probes = 1
    /\ kills = 0
    /\ bytes_written = 0
    /\ faults = MaxFaults
    /\ EmptyDisk

\* probe_downloader_qualities when yt-dlp ran and succeeded.
probe_downloader_qualities(lines) ==
  [ok |-> TRUE,
   choices |-> IF parse_quality_choices_from_format_list(lines) = <<>>
               THEN <<default_downloader_quality_choice>>
               ELSE parse_quality_choices_from_format_list(lines),
   error |-> ""]

\* The probe thread: yt-dlp has ended, its output is parsed and the result sent.
ProbeThreadParses ==
  /\ probe_thread = "running"
  /\ probe_chan' = <<probe_downloader_qualities(Transcript)>>
  /\ probe_thread' = "done"
  /\ ThreadFrame
  /\ UNCHANGED <<chan, proc, pipe, reader, shown, bytes_written, faults>>

NextParsing ==
  \/ Tick
  \/ PollTimeout
  \/ ProbeThreadParses

SpecParsing == InitParsing /\ [][NextParsing]_vars

\* ------------------------------------------ the resolver under a changing disk
\* The paths asked for and the files that may exist: names with and without
\* a numbered suffix, an extension, a directory; numbers at and above
\* u32::MAX; suffixes that are none (no digits, nothing before them).
AllPaths ==
  <<<<"a", ".", "m">>,
    <<"a", "(", "1", ")", ".", "m">>,
    <<"a", "(", "2", ")", ".", "m">>,
    <<"a", "(", "9", ")", ".", "m">>,
    <<"a", "(", "1", "0", ")", ".", "m">>,
    <<"a", "(", "4", "2", "9", "4", "9", "6", "7", "2", "9", "4", ")", ".", "m">>,
    <<"a", "(", "4", "2", "9", "4", "9", "6", "7", "2", "9", "5", ")", ".", "m">>,
    <<"a", "(", "4", "2", "9", "4", "9", "6", "7", "2", "9", "6", ")", ".", "m">>,
    <<"a", "(", "4", "2", "9", "4", "9", "6", "7", "2", "9", "6", ")", "(", "1", ")", ".", "m">>,
    <<"a", "(", "0", "1", ")", ".", "m">>,
    <<"(", "1", ")", ".", "m">>,
    <<"(", "1", ")", "(", "1", ")", ".", "m">>,
    <<"a">>,
    <<"a", "(", "1", ")">>,
    <<".", "a">>,
    <<".", "a", "(", "1", ")">>,
    <<"a", ".">>,
    <<"d", "/", "a", ".", "m">>,
    <<"d", "/", "a", "(", "1", ")", ".", "m">>,
    <<"a", "(", "x", ")", ".", "m">>>>
Paths == {AllPaths[i] : i \in 1..Len(AllPaths)}
Disks == {files \in SUBSET Paths : Cardinality(files) <= MaxFiles}

\* The editor's form asks for `base` while `files` exist; no job runs.
InitResolving ==
  \E base \in Paths, files \in Disks :
    /\ right_tab = "Editor"
    /\ pending_cancel = <<>>
    /\ loop_pc = "tick"
    /\ running = [s \in JobSlots |-> None]
    /\ running_downloader_probe = None
    /\ output = [s \in JobSlots |-> ToolOutputEmpty]
    /\ spinner = [s \in JobSlots |-> 0]
    /\ status_message = "Select a media file in the left pane."
    /\ available = [s \in JobSlots |-> TRUE]
    /\ downloader_url = ""
    /\ downloader_step = "UrlInput"
    /\ downloader_quality_choices = <<default_downloader_quality_choice>>
    /\ downloader_quality_index = 0
    /\ downloader_option_focus = <<>>
    /\ run_log = <<>>
    /\ main_wait = "none"
    /\ chan = [s \in JobSlots |-> <<>>]
    /\ proc = [s \in JobSlots |-> NoProc]
    /\ pipe = [s \in JobSlots |-> NoBytes]
    /\ reader = [s \in JobSlots |-> NoReaders]
    /\ probe_thread = "none"
    /\ probe_chan = <<>>
    /\ shown = [s \in JobSlots |-> NothingShown]
    /\ effects = {}
    /\ disk = files
    /\ requested = [RequestedAtStart EXCEPT !["editor"] = base]
    /\ resolved = <<>>
    /\ spawns = 0
    /\ probes = 0
    /\ kills = 0
    /\ bytes_written = 0
    /\ faults = 0

ResolvingFrame ==
  UNCHANGED <<running, running_downloader_probe, output, spinner, status_message,
              right_tab, pending_cancel, loop_pc, available, downloader_url,
              downloader_step, downloader_quality_choices, downloader_quality_index,
              downloader_option_focus, run_log, main_wait, chan, proc, pipe, reader,
              probe_thread, probe_chan, shown, effects, requested,
              spawns, probes, kills, bytes_written, faults>>

\* The last call made has returned, if one was made.
LastCallReturned == IF resolved = <<>> THEN TRUE ELSE resolved[Len(resolved)].path # <<>>
\* next_available_output_path is called with the path the editor's form asks
\* for; the call sees the files that exist now and changes none.
NextAvailableOutputPathCalled ==
  /\ Len(resolved) < MaxCalls
  /\ LastCallReturned
  /\ resolved' = Append(resolved,
                        [files |-> disk,
                         path |-> next_available_output_path(requested["editor"], disk)])
  /\ UNCHANGED disk
  /\ ResolvingFrame
\* The path the last call returned is created, as the job it was handed to
\* writes its output there.
ResolvedPathCreated ==
  /\ resolved # <<>>
  /\ resolved[Len(resolved)].path # <<>>
  /\ resolved[Len(resolved)].path[1] \notin disk
  /\ disk' = disk \cup {resolved[Len(resolved)].path[1]}
  /\ UNCHANGED resolved
  /\ ResolvingFrame
\* Somebody removes the file the form names.
FileRemoved ==
  /\ requested["editor"] \in disk
  /\ disk' = disk \ {requested["editor"]}
  /\ UNCHANGED resolved
  /\ ResolvingFrame

NextResolving ==
  \/ NextAvailableOutputPathCalled
  \/ ResolvedPathCreated
  \/ FileRemoved

SpecResolving == InitResolving /\ [][NextResolving]_vars

\* ------------------------------------------- the starts under a changing disk
\* The files that come and go while the program runs: the paths the two forms
\* ask for and the first numbered path of each.
ComingPaths ==
  {RequestedAtStart[s] : s \in JobSlots}
    \cup {OrElse(next_available_output_path(RequestedAtStart[s], {RequestedAtStart[s]}), <<>>) :
            s \in JobSlots}
\* Somebody creates a file.
FileAppears(path) ==
  /\ path \notin disk
  /\ disk' = disk \cup {path}
  /\ UNCHANGED resolved
  /\ ResolvingFrame
\* Somebody removes a file.
FileVanishes(path) ==
  /\ path \in disk
  /\ disk' = disk \ {path}
  /\ UNCHANGED resolved
  /\ ResolvingFrame

\* A session on one tab in which the user starts jobs while files are
\* created and removed; the tools are silent.
NextStarting ==
  \/ Tick
  \/ PollTimeout
  \/ RunEditorExport
  \/ DownloaderPressEnter
  \/ ResolveDownloaderOutputPathReturns
  \/ NextDownloaderOptionFocus
  \/ PushDownloaderUrlChar
  \/ \E s \in JobSlots, status \in {"success", "failure"} : ChildExit(s, status)
  \/ ProbeThreadSends
  \/ \E path \in ComingPaths : FileAppears(path)
  \/ \E path \in ComingPaths : FileVanishes(path)

SpecStarting == InitOnTab /\ [][NextStarting]_vars

\* --------------------------------------------- the two tabs side by side
\* A session in which the user goes from tab to tab and starts the encoder,
\* the probe and the download; the cancel key is not pressed and the tools
\* write nothing.  When it begins nothing runs, or a job of one of the tools
\* is already running.
InitSwitching ==
  \/ \E tab \in RightTabs : InitApp(tab) /\ \A s \in JobSlots : available[s]
  \/ \E slot \in JobSlots : JobWritten(slot, "stdout", <<>>, 0)

NextSwitching ==
  \/ Tick
  \/ PollTimeout
  \/ RunEditorExport
  \/ DownloaderPressEnter
  \/ ResolveDownloaderOutputPathReturns
  \/ NextDownloaderOptionFocus
  \/ PushDownloaderUrlChar
  \/ SelectNextRightTab
  \/ \E s \in JobSlots, status \in {"success", "failure"} : ChildExit(s, status)
  \/ ProbeThreadSends
  \/ ProbeThreadPanics

SpecSwitching == InitSwitching /\ [][NextSwitching]_vars

\* ------------------------------------------------------------ properties
\* A step of the tick, and what a handler that only reports leaves alone:
\* everything but the status message, the record of what the handler did and
\* the position of the event loop.
TickStep == loop_pc = "tick" /\ loop_pc' = "poll"
AllButStatus ==
  <<running, running_downloader_probe, output, spinner, right_tab, pending_cancel,
    available, downloader_url, downloader_step, downloader_quality_choices,
    downloader_quality_index, downloader_option_focus, run_log, main_wait, chan,
    proc, pipe, reader, probe_thread, probe_chan, shown, disk, requested, resolved,
    spawns, probes, kills, bytes_written, faults>>

\* C1: a start request made while the slot holds a Job (the encoder slot, the
\* download slot, the probe slot) is rejected: it spawns nothing, sets the
\* status message to the rejection and leaves the Job, its child, its channel
\* and readers and the ToolOutput as they are.  A slot is one Option<Job>, so
\* it never holds more than the one Job.
C1_StartOnOccupiedSlotRejected ==
  [][/\ (RunEditorExport /\ running["editor"] # None) =>
          /\ status_message' = "ffmpeg is already running. Wait for it to finish."
          /\ effects' = {}
          /\ UNCHANGED AllButStatus
     /\ (DownloaderPressEnter /\ running["downloader"] # None) =>
          /\ status_message' = "Downloader is already running. Wait for it to finish."
          /\ effects' = {}
          /\ UNCHANGED AllButStatus
     /\ (DownloaderPressEnter /\ running["downloader"] = None
           /\ running_downloader_probe # None) =>
          /\ status_message' = "Still fetching quality options. Please wait."
          /\ effects' = {}
          /\ UNCHANGED AllButStatus]_vars

\* C1: an export was asked for while ffmpeg ran and was rejected; the job the
\* child has written for is still there.
C1_Witness ==
  /\ running["editor"] # None
  /\ shown["editor"].written # NoBytes
  /\ status_message = "ffmpeg is already running. Wait for it to finish."

\* C2: when try_finish has seen the exit and finalized the Job, the raw
\* accumulators hold every byte the child wrote to its streams.
C2_RawHoldsAllTheChildWrote ==
  \A s \in JobSlots : shown[s].job = "finished" => shown[s].raw = shown[s].written

\* The text lines of one stream in a ToolOutput, in the order they stand there.
StreamText(out, st) ==
  LET own == SelectSeq(out.lines,
                       LAMBDA l : l.kind = "prefixed" /\ l.stream = st /\ l.msg = "")
  IN [i \in 1..Len(own) |-> own[i].text]
IsPrefix(a, b) == Len(a) <= Len(b) /\ a = SubSeq(b, 1, Len(a))
\* The bytes of the shown job received so far, and the lines they make up when
\* taken in the order the stream was read.
RawOf(s) == IF running[s] # None THEN running[s].raw ELSE shown[s].raw
LinesInReadOrder(s, st) ==
  LET scanned == ScanChunk(<<>>, <<>>, RawOf(s)[st])
  IN scanned.lines \o (IF shown[s].flushed THEN flush_pending_line(scanned.pending)
                       ELSE <<>>)

\* C3: in every state, for each stream of the shown job, the bytes received
\* are the first bytes the child wrote to that stream, in that order, and the
\* stream's lines stand in the ToolOutput in the order of those bytes, whatever
\* the readers, pump and try_finish did in between.
C3_LinesOfAStreamInReadOrder ==
  \A s \in JobSlots : \A st \in Streams :
    shown[s].job # "none" =>
      /\ IsPrefix(RawOf(s)[st], shown[s].written[st])
      /\ StreamText(output[s], st) = LinesInReadOrder(s, st)

\* C3: a job has ended with two lines of one stream in its ToolOutput, the
\* second of them from the flush of the pending tail.
C3_Witness ==
  \E s \in JobSlots : \E st \in Streams :
    /\ shown[s].job = "finished"
    /\ StreamText(output[s], st) = <<(<<97>>), (<<98>>)>>

\* C4: a cancel, in whichever branch it ends (idle slot, child already gone,
\* kill sent, kill failed, status check failed), leaves every slot holding a
\* Job exactly if it held one before.
C4_CancelKeepsSlotOccupancy ==
  [][ConfirmPendingCancel =>
       \A s \in JobSlots : (running'[s] = None) <=> (running[s] = None)]_vars

\* C4: the kill of the download has been sent and the Job is still in its slot.
C4_Witness ==
  /\ effects = {"cancel", "try_wait", "kill"}
  /\ status_message = "Cancellation requested for downloader job."
  /\ running["downloader"] # None

\* The scheduling the supervisor counts on: the event loop keeps turning (its
\* poll for a key times out after 100 ms), and the OS ends a killed child.
KilledChildExits(s) ==
  proc[s].killed > 0 /\ \E status \in {"success", "failure", "signal"} : ChildExit(s, status)

\* Weak fairness of Tick, written out: Tick is enabled exactly when AtTick
\* holds, and it is the one step that moves the loop from "tick" to "poll".
TickFairness == []<>(~AtTick) \/ []<><<TickStep>>_loop_pc

FairSpecCancelling ==
  /\ SpecCancelling
  /\ TickFairness
  /\ WF_vars(PollTimeout)
  /\ \A s \in JobSlots : WF_vars(KilledChildExits(s))

KillSent(s) == running[s] # None /\ proc[s].killed > 0

\* C5 as claimed: once the kill of a Job has been sent, its slot becomes free in
\* the end, and the step that frees it is a tick in which try_finish finds the
\* child gone.
C5_KilledJobEndsByObservedExit ==
  /\ \A s \in JobSlots : KillSent(s) ~> (running[s] = None)
  /\ [][\A s \in JobSlots :
          (KillSent(s) /\ running'[s] = None) =>
             (TickStep /\ proc[s].state = "exited")]_vars

\* C5 as it holds: once the kill of a Job has been sent, its slot becomes free
\* in the end, and the step that frees it is a tick in which try_finish polls
\* the child: it finds the child gone, or the poll fails and the Job is dropped.
C5_KilledJobEndsInTryFinish ==
  /\ \A s \in JobSlots : KillSent(s) ~> (running[s] = None)
  /\ [][\A s \in JobSlots :
          (KillSent(s) /\ running'[s] = None) =>
             /\ TickStep
             /\ "try_wait" \in effects'
             /\ "cancel" \notin effects'
             /\ proc[s].state = "exited" \/ faults' > faults]_vars

CancelLine == Message("Cancellation requested by user (x).")
CancelLines(out) == Len(SelectSeq(out.lines, LAMBDA l : l = CancelLine))

\* C5: a killed download has been finalized by try_finish: its slot is free
\* and its ToolOutput carries the line of the cancel.
C5_Witness ==
  /\ running["downloader"] = None
  /\ shown["downloader"].job = "finished"
  /\ CancelLines(output["downloader"]) = 1
  /\ effects = {"try_wait"}

\* C6: for one Job, however many cancels are made, the child gets at most one
\* kill and the ToolOutput at most one "cancellation requested" line.
C6_AtMostOneKillPerJob ==
  \A s \in JobSlots : proc[s].killed <= 1 /\ CancelLines(output[s]) <= 1

\* C7: a cancel on a free slot reports that there is nothing to cancel, polls
\* and kills nothing, and changes nothing but the status message (the dialog
\* that called it closes).
C7_CancelOnIdleSlot ==
  [][(ConfirmPendingCancel /\ running[SlotOfTab(pending_cancel[1])] = None) =>
       /\ status_message' = IF pending_cancel[1] = "Editor"
                            THEN "No running editor export to cancel."
                            ELSE "No running downloader job to cancel."
       /\ effects' = {"cancel"}
       /\ pending_cancel' = <<>>
       /\ UNCHANGED <<running, running_downloader_probe, output, spinner, right_tab,
                      available, downloader_url, downloader_step,
                      downloader_quality_choices, downloader_quality_index,
                      downloader_option_focus, run_log, main_wait, chan, proc, pipe,
                      reader, probe_thread, probe_chan, shown,
                      spawns, probes, kills, bytes_written, faults>>]_vars

\* C7: the cancel of the download was confirmed when its slot had become free.
C7_Witness ==
  /\ effects = {"cancel"}
  /\ status_message = "No running downloader job to cancel."
  /\ running["downloader"] = None
  /\ shown["downloader"].job = "finished"

\* What a tick leaves of a slot whose child is alive and silent.
SilentTick(s) ==
  /\ running'[s] = running[s]
  /\ output'[s] = output[s]
  /\ spinner'[s] = (spinner[s] + 1) % Len(SpinnerFrames)
  /\ UNCHANGED <<proc, chan, pipe, reader, shown, status_message, run_log, main_wait>>

\* C8 as claimed: a tick taken while the child is alive and the channel is
\* empty returns without waiting, the Job stays in its slot, the ToolOutput is
\* as before and the spinner index has moved on by one.
C8_TickOnSilentChild ==
  [][\A s \in JobSlots :
       (TickStep /\ running[s] # None /\ proc[s].state = "alive" /\ chan[s] = <<>>)
         => SilentTick(s)]_vars

\* C8 as it holds: the same, for a tick whose status poll does not fail.
C8_TickOnSilentChildPolled ==
  [][\A s \in JobSlots :
       (TickStep /\ running[s] # None /\ proc[s].state = "alive" /\ chan[s] = <<>>
          /\ faults' = faults)
         => SilentTick(s)]_vars

\* C8: a child that has written nothing is still alive after four ticks: the
\* spinner is back at its first frame.
C8_Witness ==
  \E s \in JobSlots :
    /\ running[s] # None
    /\ proc[s].state = "alive"
    /\ shown[s].written = NoBytes
    /\ effects = {"try_wait"}
    /\ spinner[s] = 0

\* C9: the main thread is never inside a call that waits for a tool process.
C9_MainThreadNeverWaits == main_wait = "none"

\* C10 as claimed: a slot goes from occupied to free only in the try_finish of
\* a tick, and only when the child is found gone.
C10_SlotFreedOnlyOnObservedExit ==
  [][\A s \in JobSlots :
       (running[s] # None /\ running'[s] = None) =>
          (TickStep /\ proc[s].state = "exited")]_vars

\* C10 as it holds: a slot goes from occupied to free only in the try_finish of
\* a tick: the child is found gone and the Job is finalized, or the status
\* poll fails and the Job is dropped.
C10_SlotFreedOnlyInTryFinish ==
  [][\A s \in JobSlots :
       (running[s] # None /\ running'[s] = None) =>
          /\ TickStep
          /\ "try_wait" \in effects'
          /\ \/ shown'[s].job = "finished" /\ proc[s].state = "exited"
             \/ shown'[s].job = "abandoned" /\ faults' > faults]_vars

\* C10: a Job was dropped by the try_finish of a tick whose status poll failed.
C10_Witness ==
  \E s \in JobSlots :
    /\ running[s] = None
    /\ shown[s].job = "abandoned"
    /\ effects = {"try_wait"}

\* The line try_finish appends when the status poll fails.
PollDiagnostic(s) ==
  PrefixedMessage("stderr", IF s = "editor" THEN "failed to poll ffmpeg: <err>"
                            ELSE "failed to poll Downloader process: <err>")
\* try_finish of slot s.
try_finish(S, s, poll, log_ok, refresh_ok) ==
  IF s = "editor" THEN try_finish_running_editor(S, poll, log_ok, refresh_ok)
  ELSE try_finish_running_downloader(S, poll, refresh_ok)

\* C11: wherever a Job runs, a try_finish whose status poll fails - taken, as
\* in the tick, after pump - appends the one diagnostic line to the slot's
\* ToolOutput and clears the slot, and classifies nothing: no line of a
\* pending tail, no record in the run log, no refresh of the file browser;
\* the other slot is left alone.
C11_PollFailureDropsUnclassified ==
  \A s \in JobSlots :
    running[s] # None =>
      \A log_ok \in BOOLEAN, refresh_ok \in BOOLEAN :
        LET before == pump_running_events(Cur, s)
            after == try_finish(before, s, "err", log_ok, refresh_ok)
        IN /\ after.running[s] = None
           /\ after.output[s].lines = Append(before.output[s].lines, PollDiagnostic(s))
           /\ after.run_log = before.run_log
           /\ after.effects = {"try_wait"}
           /\ after.shown[s].job = "abandoned" /\ ~after.shown[s].flushed
           /\ \A o \in JobSlots \ {s} :
                /\ after.running[o] = before.running[o]
                /\ after.output[o] = before.output[o]

\* C11: a tick's poll failed on a Job that held an unfinished line "a": the
\* Job is gone, the diagnostic is the last line and "a" was never shown.
C11_Witness ==
  \E s \in JobSlots, st \in Streams :
    /\ running[s] = None
    /\ shown[s].job = "abandoned"
    /\ shown[s].raw[st] = <<97>>
    /\ StreamText(output[s], st) = <<>>
    /\ output[s].lines[Len(output[s].lines)] = PollDiagnostic(s)
    /\ run_log = <<>>

\* The two lines replace_with_command_error leaves for a failed spawn.
SpawnErrorLines(s) ==
  <<CommandLine(CommandOf(s)),
    Message(IF s = "editor" THEN "Failed to start ffmpeg: <err>"
            ELSE "Failed to start Downloader: <err>")>>
\* No child, channel or reader of slot s in the handler's result S.
NoJobIn(S, s) ==
  /\ S.running[s] = None
  /\ S.proc[s] = NoProc
  /\ S.chan[s] = <<>>
  /\ S.reader[s] = NoReaders

\* C12: wherever the user can start an export, or a download has its output
\* name resolved, a start whose spawn fails returns with no Job in the slot
\* and with the slot's ToolOutput being exactly `$ <command>` and the error
\* message, whatever the ToolOutput held; this is the handler's own result,
\* no tick is needed for it.
C12_SpawnFailureShowsTwoLines ==
  /\ (KeyToPane("Editor") /\ running["editor"] = None /\ available["editor"]) =>
       \A log_ok \in BOOLEAN :
         LET after == run_editor_export(Cur, TRUE, TRUE, FALSE, log_ok)
         IN /\ NoJobIn(after, "editor")
            /\ after.output["editor"].lines = SpawnErrorLines("editor")
  /\ main_wait = "resolve_downloader_output_path" =>
       LET after == run_downloader_download_resolved(Cur, TRUE, FALSE)
       IN /\ NoJobIn(after, "downloader")
          /\ after.output["downloader"].lines = SpawnErrorLines("downloader")

\* C12: yt-dlp could not be started: the three lines of the quality probe are
\* gone, the two lines of the failure are shown, the slot is free and the
\* loop has not come to its next tick.
C12_Witness ==
  /\ output["downloader"].lines = SpawnErrorLines("downloader")
  /\ running["downloader"] = None
  /\ proc["downloader"] = NoProc
  /\ effects = {"spawn"}
  /\ downloader_step = "QualitySelect"
  /\ loop_pc = "tick"

\* The Job of slot s ends in this step by an observed exit; a start of slot s
\* fails to spawn in this step.
JobFinalized(s) == running[s] # None /\ running'[s] = None /\ shown'[s].job = "finished"
LaunchFailed(s) ==
  /\ IF s = "editor" THEN RunEditorExport ELSE ResolveDownloaderOutputPathReturns
  /\ "spawn" \in effects'
  /\ running'[s] = None
\* The record a terminal outcome of slot s is to leave in the run log.
OutcomeRecord(s) ==
  IF JobFinalized(s)
  THEN [command_line |-> running[s].command_line,
        exit_code |-> ExitCode(proc[s].status),
        launch_error |-> "",
        stdout |-> shown'[s].raw["stdout"], stderr |-> shown'[s].raw["stderr"]]
  ELSE [command_line |-> CommandOf(s), exit_code |-> "<none>", launch_error |-> "<err>",
        stdout |-> <<>>, stderr |-> <<>>]

\* C13: every step in which a job of either slot ends with an exit status, or
\* a start fails to spawn, writes the one record of that outcome to the run
\* log (command line, exit code or none, launch error, raw stdout and
\* stderr), which is appended unless the write itself fails; every other step
\* leaves the run log as it is.
C13_EveryOutcomeLoggedOnce ==
  [][IF \E s \in JobSlots : JobFinalized(s) \/ LaunchFailed(s)
     THEN \E s \in JobSlots :
            /\ JobFinalized(s) \/ LaunchFailed(s)
            /\ "run_log" \in effects'
            /\ run_log' \in {Append(run_log, OutcomeRecord(s)), run_log}
     ELSE run_log' = run_log]_vars

\* The status messages of the two classifications of an exit.
SuccessMessages ==
  {"Created clip: <path> (log: <log>)",
   "Created clip: <path> (log: <log>) (browser refresh failed: <err>)",
   "Created clip: <path> (log write failed: <err>)",
   "Created clip: <path> (log write failed: <err>) (browser refresh failed: <err>)",
   "Downloader completed successfully.",
   "Downloader completed, but browser refresh failed: <err>"}
FailureMessages ==
  {"ffmpeg failed: <detail> (log: <log>)",
   "ffmpeg failed: <detail> (log write failed: <err>)",
   "Downloader failed: <detail>"}
\* The handler's state with the kill requests of slot s forgotten.
Unkilled(S, s) == [S EXCEPT !.proc[s].killed = 0]

\* C14: wherever a Job's child was killed by a cancel and has ended, the
\* try_finish of the next tick finalizes the Job exactly as it finalizes one
\* that was never cancelled: the outcome is the success path (success message,
\* refresh of the file browser) if the exit status is success and else the
\* failure path (failure message, no refresh); the slot is free and the Job
\* is shown as finished, not as anything else.
C14_KilledJobClassifiedByExitStatus ==
  \A s \in JobSlots :
    (running[s] # None /\ proc[s].killed > 0 /\ proc[s].state = "exited") =>
      \A log_ok \in BOOLEAN, refresh_ok \in BOOLEAN :
        LET before == pump_running_events(Cur, s)
            after == try_finish(before, s, "ok", log_ok, refresh_ok)
        IN /\ after = try_finish(Unkilled(before, s), s, "ok", log_ok, refresh_ok)
           /\ after.running[s] = None
           /\ after.shown[s].job = "finished"
           /\ IF proc[s].status = "success"
              THEN /\ after.status_message \in SuccessMessages
                   /\ "refresh_file_browser" \in after.effects
              ELSE /\ after.status_message \in FailureMessages
                   /\ "refresh_file_browser" \notin after.effects

\* C14: a download was cancelled, its child ended by the signal, and a tick
\* finalized it as a failure.
C14_Witness ==
  /\ running["downloader"] = None
  /\ shown["downloader"].job = "finished"
  /\ CancelLines(output["downloader"]) = 1
  /\ status_message = "Downloader failed: <detail>"
  /\ output["downloader"].lines[Len(output["downloader"].lines)]
       = Message("Downloader finished with exit code: -1")
  /\ effects = {"try_wait"}

\* The ToolOutput of the output pane, the next line of the tool and the
\* ToolOutput after that line is appended to it.
Pane == output[WatchedSlot]
NextPaneLine ==
  [kind |-> "prefixed", stream |-> "stdout", text |-> <<LastSerial(Pane) + 1>>, msg |-> ""]
PaneAppended == append_prefixed(Pane, "stdout", NumberedLine(LastSerial(Pane) + 1))
\* The lines an append drops from the front.
Dropped == Len(Pane.lines) + 1 - Len(PaneAppended.lines)
\* The last n elements of a sequence.
LastOf(seq, n) == SubSeq(seq, Len(seq) - n + 1, Len(seq))

\* C15: in a session at the output pane the ToolOutput never holds more than
\* MAX_LINES lines, and the lines it holds are the latest that arrived, in the
\* order they arrived: once the header is gone the numbers of its first and
\* last line are as far apart as the lines, an append keeps the last lines of
\* the old buffer followed by the new one, scrolling, paging and rendering leave the lines alone, and a reset
\* leaves the two lines of its header.
C15_CapAndArrivalOrder ==
  /\ Len(Pane.lines) <= MAX_LINES
  /\ (Pane.lines # <<>> /\ Serial(Pane.lines[1]) > 0) =>
       LastSerial(Pane) - Serial(Pane.lines[1]) = Len(Pane.lines) - 1
  /\ Len(PaneAppended.lines) = Min(Len(Pane.lines) + 1, MAX_LINES)
  /\ PaneAppended.lines = LastOf(Append(Pane.lines, NextPaneLine), Len(PaneAppended.lines))
  /\ \A visible_line_count \in ViewportHeights :
       clamped_scroll_for_viewport(Pane, visible_line_count).lines = Pane.lines
  /\ scroll_down(Pane).lines = Pane.lines /\ scroll_up(Pane).lines = Pane.lines
  /\ page_down(Pane).lines = Pane.lines /\ page_up(Pane).lines = Pane.lines
  /\ Len(begin_stream(Pane, "c", "m").lines) = 2
  /\ Len(replace_with_command_error(Pane, "c", "m").lines) = 2

\* C15: the buffer is full and both header lines have been dropped: the lines
\* kept are the tool's lines 1 to MAX_LINES.
C15_Witness ==
  /\ Len(Pane.lines) = MAX_LINES
  /\ Serial(Pane.lines[1]) = 1
  /\ LastSerial(Pane) = MAX_LINES

\* C16 as claimed: whenever an append drops k lines, the scroll after it is
\* the scroll before it less k, and 0 if that is negative.
C16_ScrollShiftedByDropped ==
  Dropped > 0 => PaneAppended.scroll = SatSub(Pane.scroll, Dropped)

\* C16 as it holds: whenever an append drops k lines while follow_tail is
\* false, the scroll after it is the scroll before it less k, and 0 if that is
\* negative; while follow_tail is true the scroll after it is the index of the
\* last line.
C16_ScrollShiftedUnlessFollowing ==
  Dropped > 0 =>
    PaneAppended.scroll = IF Pane.follow_tail THEN Len(PaneAppended.lines) - 1
                          ELSE SatSub(Pane.scroll, Dropped)

\* C16: the user had scrolled to the first line of a full buffer and a line
\* arrived: the oldest line is gone and the scroll is still 0.
C16_Witness ==
  /\ ~Pane.follow_tail
  /\ Pane.scroll = 0
  /\ Len(Pane.lines) = MAX_LINES
  /\ Pane.lines[1].kind # "$"
  /\ effects = {"append_line"}

\* The bottom of the buffer as the pane was last rendered: the scroll position
\* that shows the last line; it is that of the buffer as it is.
PaneBottom == Pane.last_max_scroll_top
BottomIsCurrent ==
  \E visible_line_count \in ViewportHeights :
    PaneBottom = SatSub(Len(Pane.lines), visible_line_count)

\* C17: every scroll_up and page_up leaves follow_tail false; follow_tail goes
\* from false to true only in a scroll_down or page_down that brings the
\* scroll to the bottom of the buffer, or in a reset by begin_stream or
\* replace_with_command_error; a scroll_down or page_down that stops short of
\* the bottom leaves it false.
C17_FollowTailSwitches ==
  [][/\ (ScrollDownloaderOutputUp \/ PageDownloaderOutputUp) =>
          ~output'[WatchedSlot].follow_tail
     /\ (~Pane.follow_tail /\ output'[WatchedSlot].follow_tail) =>
          \/ /\ ScrollDownloaderOutputDown \/ PageDownloaderOutputDown
             /\ BottomIsCurrent
             /\ output'[WatchedSlot].scroll >= PaneBottom
          \/ OutputBeginStream
          \/ OutputReplaceWithCommandError
     /\ (/\ ScrollDownloaderOutputDown \/ PageDownloaderOutputDown
         /\ ~Pane.follow_tail
         /\ output'[WatchedSlot].scroll < PaneBottom) =>
          ~output'[WatchedSlot].follow_tail]_vars

\* C17: the user scrolled up and then down again by one line, short of the
\* bottom: the pane does not follow the tail.
C17_Witness ==
  /\ effects = {"scroll_down"}
  /\ Pane.scroll < PaneBottom
  /\ ~Pane.follow_tail

\* C18: while follow_tail is true, after an append the scroll is the index of
\* the last line; while follow_tail is false, an append that drops no line
\* leaves the scroll where it was.
C18_AppendFollowsTail ==
  /\ Pane.follow_tail => PaneAppended.scroll = Len(PaneAppended.lines) - 1
  /\ (~Pane.follow_tail /\ Dropped = 0) => PaneAppended.scroll = Pane.scroll
  /\ PaneAppended.follow_tail = Pane.follow_tail

\* C18: a line arrived in a pane the user had scrolled up, in a buffer below
\* the cap: the line is there and the pane is where the user left it, above
\* the bottom.
C18_Witness ==
  /\ effects = {"append_line"}
  /\ ~Pane.follow_tail
  /\ Len(Pane.lines) < MAX_LINES
  /\ LastSerial(Pane) > 0
  /\ Pane.scroll < PaneBottom

\* The two lines begin_stream leaves at the start of a job of slot s.
StartLines(s) == <<CommandLine(CommandOf(s)), Message(StreamingMessage(s))>>
\* The state with slot s's pane scrolled to `scroll`, following the tail or not.
Scrolled(S, s, scroll, follow_tail) ==
  [S EXCEPT !.output[s].scroll = scroll, !.output[s].follow_tail = follow_tail]
\* Slot s of the handler's result S is a job just started.
FreshlyStarted(S, s) ==
  /\ S.running[s] # None
  /\ S.output[s].lines = StartLines(s)
  /\ S.output[s].scroll = 1
  /\ S.output[s].follow_tail
  /\ S.spinner[s] = 0

\* C19: wherever the user can start an export, or a download has its output
\* name resolved, a start whose spawn succeeds leaves the slot's ToolOutput
\* with exactly the two lines `$ <command>` and the streaming placeholder and
\* with follow_tail true, and the slot's spinner at 0, whatever the ToolOutput
\* held and wherever it was scrolled.
C19_StartResetsToolOutput ==
  \A follow_tail \in BOOLEAN, scroll \in 0..2 :
    /\ (KeyToPane("Editor") /\ running["editor"] = None /\ available["editor"]) =>
         FreshlyStarted(run_editor_export(Scrolled(Cur, "editor", scroll, follow_tail),
                                          TRUE, TRUE, TRUE, TRUE), "editor")
    /\ main_wait = "resolve_downloader_output_path" =>
         FreshlyStarted(run_downloader_download_resolved(
                          Scrolled(Cur, "downloader", scroll, follow_tail), TRUE, TRUE),
                        "downloader")

\* C19: the download was started from the quality list: the three lines the
\* quality probe had left are gone, the pane shows the two lines of the new
\* job and follows the tail, and the spinner is at its first frame.
C19_Witness ==
  /\ downloader_step = "QualitySelect"
  /\ running["downloader"] # None
  /\ effects = {"spawn"}
  /\ output["downloader"].lines = StartLines("downloader")
  /\ output["downloader"].follow_tail
  /\ spinner["downloader"] = 0
  /\ loop_pc = "tick"

\* The lines the Assembler gives for `bytes` of one stream fed to a new Job
\* as one chunk, with the pending tail flushed after it if `flushed`.
FedAsOneChunk(bytes, st, flushed) ==
  LET got == consume_stream_chunk([command_line |-> "", raw |-> NoBytes,
                                   pending |-> NoBytes], st, bytes)
  IN [lines |-> got.lines \o (IF flushed THEN flush_pending_line(got.running.pending[st])
                              ELSE <<>>),
      pending |-> got.running.pending[st]]

\* C20: whatever bytes the child wrote and in whatever chunks the reader
\* passed them on, the lines of the stream shown so far, and the bytes
\* pending, are those the bytes received give when fed as one chunk; once the
\* Job is finalized with every byte received, the lines shown are those the
\* whole sequence gives as one chunk followed by the flush of the tail.
C20_SplitsAssembleAsOneChunk ==
  \A s \in JobSlots : \A st \in Streams :
    /\ running[s] # None =>
         /\ StreamText(output[s], st) = FedAsOneChunk(running[s].raw[st], st, FALSE).lines
         /\ running[s].pending[st] = FedAsOneChunk(running[s].raw[st], st, FALSE).pending
    /\ (shown[s].job = "finished" /\ shown[s].raw[st] = shown[s].written[st]) =>
         StreamText(output[s], st) = FedAsOneChunk(shown[s].written[st], st, TRUE).lines

\* C20: the child wrote 0xC3 0xA9 LF, the two bytes of U+00E9 and the end of
\* the line; the reader passed on 0xC3 alone, and the tick has consumed that
\* chunk: the first half of the character is pending, the second half and
\* the delimiter are still to be read, and no line is shown yet.
C20_WitnessSplit ==
  \E s \in JobSlots, st \in Streams :
    /\ running[s] # None
    /\ running[s].raw[st] = <<195>>
    /\ running[s].pending[st] = <<195>>
    /\ pipe[s][st] = <<169, 10>>
    /\ chan[s] = <<>>
    /\ StreamText(output[s], st) = <<>>

\* The bytes of `bytes` after its last delimiter; all of them if it has none.
RECURSIVE SinceLastDelimiter(_)
SinceLastDelimiter(bytes) ==
  IF bytes = <<>> \/ IsDelimiter(bytes[Len(bytes)]) THEN <<>>
  ELSE Append(SinceLastDelimiter(SubSeq(bytes, 1, Len(bytes) - 1)), bytes[Len(bytes)])

\* C21: whatever chunks a Job has consumed, the pending buffer of each stream
\* holds exactly the bytes received on that stream since its last LF or CR,
\* and so holds no delimiter byte.
C21_PendingIsSinceLastDelimiter ==
  \A s \in JobSlots : \A st \in Streams :
    running[s] # None =>
      /\ running[s].pending[st] = SinceLastDelimiter(running[s].raw[st])
      /\ \A i \in 1..Len(running[s].pending[st]) : ~IsDelimiter(running[s].pending[st][i])

\* C21: three bytes were consumed, a letter, a delimiter and a letter: only
\* the last letter is pending, the line before the delimiter is shown.
C21_Witness ==
  \E s \in JobSlots, st \in Streams :
    /\ running[s] # None
    /\ running[s].raw[st] = <<97, 13, 97>>
    /\ running[s].pending[st] = <<97>>
    /\ StreamText(output[s], st) = << <<97>> >>

\* What finish_running does to stream st's lines when it finalizes slot s's
\* Job: the lines of the events still queued, then the pending tail as one
\* line.
FinishedText(s, st) ==
  LET got == DrainEvents(running[s], chan[s], <<>>)
      queued == SelectSeq(got.lines, LAMBDA l : l.stream = st /\ l.line.msg = "")
      tail == got.running.pending[st]
  IN StreamText(output[s], st)
       \o [i \in 1..Len(queued) |-> queued[i].line.text]
       \o (IF tail # <<>> THEN <<Utf8Lossy(tail)>> ELSE <<>>)

\* C22: in the tick that finalizes a Job after its exit was observed, a
\* non-empty pending tail of each stream is appended as one line of that
\* stream, after the stream's lines shown before and those of its chunks still
\* queued, and the Job is out of the slot.
C22_TailFlushedLast ==
  [][\A s \in JobSlots :
       (running[s] # None /\ shown'[s].job = "finished") =>
         /\ running'[s] = None
         /\ \A st \in Streams : StreamText(output'[s], st) = FinishedText(s, st)]_vars

\* C22: a Job ended with the bytes "a", CR, 0xC3 received on a stream: the
\* line "a" and, after it, the tail as the line U+FFFD are shown, and the
\* slot is free.
C22_Witness ==
  \E s \in JobSlots, st \in Streams :
    /\ running[s] = None
    /\ shown[s].job = "finished"
    /\ shown[s].raw[st] = <<97, 13, 195>>
    /\ StreamText(output[s], st) = << <<97>>, <<65533>> >>

\* A reader thread sent one event to slot s's channel in this step.
Sent(s) == Len(chan'[s]) = Len(chan[s]) + 1 /\ SubSeq(chan'[s], 1, Len(chan[s])) = chan[s]

\* C23: an event is sent only by a reader still in its loop; the reader that
\* sends a reader error has ended with it; a reader that ends otherwise, at
\* the end of its stream, sends nothing; a reader that has ended is never in
\* its loop again, so it reads and sends no more.
C23_ReaderEndsAtFirstError ==
  [][\A s \in JobSlots :
       /\ Sent(s) =>
            LET event == chan'[s][Len(chan'[s])]
            IN /\ reader[s][event.stream].pc = "read"
               /\ event.type = "ReaderError" => reader'[s][event.stream].pc = "done"
       /\ \A st \in Streams :
            /\ (reader[s][st].pc = "read" /\ reader'[s][st].pc = "done") =>
                 \/ chan'[s] = chan[s]
                 \/ chan'[s] = Append(chan[s], ReaderError(st))
            /\ reader[s][st].pc = "done" => reader'[s][st].pc # "read"]_vars

\* C23: a reader passed on one byte and then failed: the chunk and the one
\* reader error are queued, the reader has ended.
C23_Witness ==
  \E s \in JobSlots, st \in Streams :
    /\ chan[s] = <<Chunk(st, <<97>>), ReaderError(st)>>
    /\ reader[s][st].pc = "done"

SpinnerStep(i) == (i + 1) % Len(SpinnerFrames)
SpinnerInRange(sp) == \A s \in JobSlots : sp[s] \in 0..(Len(SpinnerFrames) - 1)
\* What advances a slot's spinner in App::tick: the encoder's Job for the
\* encoder's, the download Job or the quality probe for the downloader's.
SpinnerActive(s) ==
  running[s] # None \/ (s = "downloader" /\ running_downloader_probe # None)

\* C24 as claimed: a slot's spinner index is within the frames, a tick moves
\* it one frame on, cyclically, if the slot held a Job at the start of the
\* tick, and a tick leaves it as it is if the slot held none.
C24_SpinnerFollowsSlotJob ==
  [][/\ SpinnerInRange(spinner) /\ SpinnerInRange(spinner')
     /\ TickStep =>
          \A s \in JobSlots :
            spinner'[s] = IF running[s] # None THEN SpinnerStep(spinner[s]) ELSE spinner[s]]_vars

\* C24 as it holds: the same, with the downloader's spinner moved on also by
\* a tick at whose start the quality probe was running, and left as it is
\* only when neither the download Job nor the probe was there.
C24_SpinnerFollowsJobOrProbe ==
  [][/\ SpinnerInRange(spinner) /\ SpinnerInRange(spinner')
     /\ TickStep =>
          \A s \in JobSlots :
            spinner'[s] = IF SpinnerActive(s) THEN SpinnerStep(spinner[s]) ELSE spinner[s]]_vars

\* C24: no download was ever started, the quality probe is running and has
\* not answered, and a tick has moved the downloader's spinner on by a frame.
C24_Witness ==
  /\ running_downloader_probe # None
  /\ running["downloader"] = None
  /\ shown["downloader"].job = "none"
  /\ spinner["downloader"] = 1
  /\ loop_pc = "poll"

\* ------------------------------------------------- the Capability Parser
\* The probe thread has run the parser over the transcript and sent its
\* result, which the event loop has not taken yet.
Returned == probe_chan # <<>>
\* What parse_quality_choices_from_format_list returns for the transcript.
ParserOutput == parse_quality_choices_from_format_list(Transcript)
\* The entries of the parser's output after element zero.
ParsedRows == Tail(ParserOutput)

\* C25: for every transcript (empty, without a header, with any rows) the
\* list the parser returns is non-empty and its element zero is the synthetic
\* automatic/best choice.
C25_DefaultChoiceFirst ==
  Returned =>
    /\ Len(ParserOutput) >= 1
    /\ ParserOutput[1] = default_downloader_quality_choice
    /\ ParserOutput[1].selector = DefaultSelector
C25_Witness ==
  /\ Returned
  /\ Transcript = <<HeaderLine>> \o AllTableLines
  /\ Len(ParserOutput) = 7
  /\ ParserOutput[1] = default_downloader_quality_choice
  /\ probe_chan[1].choices = ParserOutput

\* The rows the parser's loop accepts from the transcript, in table order.
Accepted == Candidates(Transcript, CANDIDATE_CAP)
\* The accepted row each of `choices` was made from.
CandidatesOf(accepted, choices) ==
  [i \in 1..Len(choices) |->
     CHOOSE c \in {accepted[k] : k \in 1..Len(accepted)} : c.choice = choices[i]]
\* `left` may stand before `right`: smaller size first, no size last, and
\* the order of the table between equal sizes and between two without size.
InSizeOrder(left, right) ==
  IF left.size_bytes # <<>> /\ right.size_bytes # <<>>
  THEN \/ left.size_bytes[1] < right.size_bytes[1]
       \/ left.size_bytes[1] = right.size_bytes[1] /\ left.row < right.row
  ELSE IF left.size_bytes = <<>> /\ right.size_bytes = <<>>
  THEN left.row < right.row
  ELSE right.size_bytes = <<>>
AllInSizeOrder(candidates) ==
  \A i, j \in 1..Len(candidates) : i < j => InSizeOrder(candidates[i], candidates[j])
\* `choices` are the `accepted` rows, each once, in the order of their sizes.
AcceptedInSizeOrder(accepted, choices) ==
  /\ Len(choices) = Len(accepted)
  /\ \A k \in 1..Len(accepted) : \E i \in 1..Len(choices) : accepted[k].choice = choices[i]
  /\ AllInSizeOrder(CandidatesOf(accepted, choices))
RowsOf(candidates) == [i \in 1..Len(candidates) |-> candidates[i].row]

\* C26: after the synthetic default, the parser's choices are the accepted
\* rows ordered by parsed size ascending; every choice without a parsed size
\* comes after all sized ones; choices of equal size, or both without size,
\* keep the order of the table.
C26_OrderedBySize == Returned => AcceptedInSizeOrder(Accepted, ParsedRows)
\* Rows 5 and 4 of 1.5KiB and 2KiB, rows 2 and 6 both of 1MiB, rows 3 and 9
\* without a size.
C26_Witness ==
  /\ Returned
  /\ Transcript = <<HeaderLine>> \o AllTableLines
  /\ RowsOf(CandidatesOf(Accepted, ParsedRows)) = <<5, 4, 2, 6, 3, 9>>
  /\ RowsOf(CandidatesOf(Accepted, Tail(probe_chan[1].choices))) = <<5, 4, 2, 6, 3, 9>>

\* The line of the transcript that opens the table: the first one with both
\* "ID" and "EXT"; 0 if there is none.
HeaderRow(lines) ==
  IF \E r \in 1..Len(lines) : contains(lines[r], <<"I", "D">>) /\ contains(lines[r], <<"E", "X", "T">>)
  THEN MinOf({r \in 1..Len(lines) :
                contains(lines[r], <<"I", "D">>) /\ contains(lines[r], <<"E", "X", "T">>)})
  ELSE 0
\* What a trimmed line under the header yields by itself: nothing if it is
\* empty or a separator, else what the loop's body makes of it.
RowYield(trimmed) ==
  IF trimmed = <<>> THEN <<>>
  ELSE IF Head(trimmed) = "-" THEN <<>>
  ELSE RowCandidate(trimmed)
\* For each line of the transcript, the choice it yields by itself.
YieldsUnder(lines, header) ==
  [r \in 1..Len(lines) |->
     IF header = 0 \/ r <= header THEN <<>> ELSE RowYield(trim(lines[r]))]
Yields(lines) == YieldsUnder(lines, HeaderRow(lines))
Yielding(yields, r) == yields[r] # <<>>
SelectorOf(yields, r) == yields[r][1].choice.selector

DistinctSelectors(choices) ==
  \A i, j \in 1..Len(choices) : i # j => choices[i].selector # choices[j].selector
\* Each candidate is what its row yields, and no row before it yields its
\* selector.
FirstRowsKept(yields, candidates) ==
  \A i \in 1..Len(candidates) :
    /\ Yielding(yields, candidates[i].row)
    /\ yields[candidates[i].row][1].choice = candidates[i].choice
    /\ \A r \in 1..(candidates[i].row - 1) :
         Yielding(yields, r) => SelectorOf(yields, r) # candidates[i].choice.selector

\* C27: no two entries of the parser's output share a selector, the
\* synthetic default included; of several rows yielding one selector, the
\* entry kept is the one of the first such row of the table.
C27_FirstOfEachSelector ==
  Returned =>
    /\ DistinctSelectors(ParserOutput)
    /\ FirstRowsKept(Yields(Transcript), CandidatesOf(Accepted, ParsedRows))
\* Rows 2 and 7 both yield the selector 18, with different labels, and row 8
\* yields the selector of the default.
C27_Witness ==
  /\ Returned
  /\ Transcript = <<HeaderLine>> \o AllTableLines
  /\ SelectorOf(Yields(Transcript), 2) = <<"1", "8">>
  /\ SelectorOf(Yields(Transcript), 7) = <<"1", "8">>
  /\ Yields(Transcript)[2] # Yields(Transcript)[7]
  /\ SelectorOf(Yields(Transcript), 8) = DefaultSelector
  /\ Yields(Transcript)[2][1].choice = ParsedRows[3]
  /\ Len(ParserOutput) = 7

\* The rows that yield a selector no earlier row yields, and not the
\* default's: the rows acceptable as distinct choices.
DistinctRows(yields) ==
  {r \in DOMAIN yields :
     /\ Yielding(yields, r)
     /\ SelectorOf(yields, r) # DefaultSelector
     /\ \A q \in 1..(r - 1) : Yielding(yields, q) => SelectorOf(yields, q) # SelectorOf(yields, r)}
\* The first `n` rows of a set of rows.
FirstRows(rows, n) == {r \in rows : Cardinality({q \in rows : q < r}) < n}
\* `choices` are the yields of the first CANDIDATE_CAP of `rows`.
KeepsFirstRows(yields, rows, choices) ==
  /\ Len(choices) <= CANDIDATE_CAP
  /\ {choices[i] : i \in 1..Len(choices)}
       = {yields[r][1].choice : r \in FirstRows(rows, CANDIDATE_CAP)}
KeepsFirstYields(yields, choices) == KeepsFirstRows(yields, DistinctRows(yields), choices)

\* C28: the parser's output holds at most 79 entries besides the synthetic
\* default, and they come from the first 79 acceptable distinct rows of the
\* table: the cap cuts the table before the sort by size.
C28_CapKeepsFirstRows ==
  Returned =>
    /\ Len(ParserOutput) <= CANDIDATE_CAP + 1
    /\ KeepsFirstYields(Yields(Transcript), ParsedRows)
\* 81 acceptable rows whose sizes fall down the table: the 79th of them, line
\* 88, is the smallest kept and so the first after the default.
C28_Witness ==
  /\ Returned
  /\ Transcript = LongTable(CANDIDATE_CAP + 10, TRUE)
  /\ Cardinality(DistinctRows(Yields(Transcript))) = CANDIDATE_CAP + 2
  /\ Len(ParsedRows) = CANDIDATE_CAP
  /\ RowsOf(CandidatesOf(Accepted, ParsedRows))[1] = 88
  /\ RowsOf(CandidatesOf(Accepted, ParsedRows))[CANDIDATE_CAP] = 2

\* The selector the row of trimmed text `trimmed` is to have: its identifier,
\* followed by +bestaudio/best if the row says "video only".
SelectorFor(trimmed) ==
  IF contains(trimmed, <<"v", "i", "d", "e", "o", " ", "o", "n", "l", "y">>)
  THEN split_whitespace(trimmed)[1] \o <<"+", "b", "e", "s", "t", "a", "u", "d", "i", "o", "/", "b", "e", "s", "t">>
  ELSE split_whitespace(trimmed)[1]
SelectorsFollowRows(lines, candidates) ==
  \A i \in 1..Len(candidates) :
    candidates[i].choice.selector = SelectorFor(trim(lines[candidates[i].row]))

\* C29: the selector emitted for an accepted row is <identifier>+bestaudio/best
\* exactly if the row contains the phrase "video only", and the bare
\* identifier otherwise.
C29_SelectorMarksVideoOnly ==
  Returned => SelectorsFollowRows(Transcript, CandidatesOf(Accepted, ParsedRows))
\* Line 5, with video only, gives the first choice after the default; line 4,
\* without, the second.
C29_Witness ==
  /\ Returned
  /\ Transcript = <<HeaderLine>> \o AllTableLines
  /\ RowsOf(CandidatesOf(Accepted, ParsedRows))[1] = 5
  /\ ParsedRows[1].selector = <<"2", "9", "9", "+", "b", "e", "s", "t", "a", "u", "d", "i", "o", "/", "b", "e", "s", "t">>
  /\ RowsOf(CandidatesOf(Accepted, ParsedRows))[2] = 4
  /\ ParsedRows[2].selector = <<"2", "2">>

\* The conditions on the row of trimmed text `trimmed`, of tokens `tokens`:
\* it is no separator, its first token is an identifier, it names no
\* still-image or storyboard kind, and a token after the identifier is a
\* resolution.
RowIsVideoRow(trimmed, tokens) ==
  /\ trimmed # <<>>
  /\ Head(trimmed) # "-"
  /\ is_format_id_token(tokens[1])
  /\ ~contains(trimmed, <<"i", "m", "a", "g", "e", "s">>)
  /\ ~contains(trimmed, <<"s", "t", "o", "r", "y", "b", "o", "a", "r", "d">>)
  /\ \E k \in 2..Len(tokens) : ResolutionToken(tokens[k]) # <<>>
RowsAreVideoRows(lines, header, candidates) ==
  \A i \in 1..Len(candidates) :
    /\ header # 0
    /\ candidates[i].row > header
    /\ RowIsVideoRow(trim(lines[candidates[i].row]),
                     split_whitespace(trim(lines[candidates[i].row])))

\* C30: a row yields a choice only if it comes after the header line, is no
\* separator line, its first token has only characters of [A-Za-z0-9._-], it
\* names no still-image or storyboard kind, and one of its tokens other than
\* the identifier is a resolution <digits>x<digits>.
C30_OnlyVideoRowsYield ==
  Returned =>
    RowsAreVideoRows(Transcript, HeaderRow(Transcript), CandidatesOf(Accepted, ParsedRows))

\* ------------------------------------------------- the Output Path Resolver
\* The extension of a path as text, empty if it has none.
ExtensionText(path) == OrElse(extension(path), <<>>)
\* What a call with `base` is to return: `base` itself if it is no file, else
\* a path that is no file, in the directory and with the extension of `base`.
ReturnsFreePath(base, call) ==
  IF base \notin call.files THEN call.path = <<base>>
  ELSE /\ call.path # <<>>
       /\ call.path[1] \notin call.files
       /\ parent(call.path[1]) = parent(base)
       /\ ExtensionText(call.path[1]) = ExtensionText(base)

\* C31: next_available_output_path(base) returns base unchanged when base
\* does not exist; when base exists it returns a path of the same directory
\* and extension that does not exist at the time of the call.
C31_ReturnsBaseOrFreePath ==
  \A i \in 1..Len(resolved) : ReturnsFreePath(requested["editor"], resolved[i])

\* The number of the "(N)" suffix of the stem of a path, 0 if it has none.
NumericSuffix(path) == OrElse(split_numbered_suffix(file_stem(path)).number, <<"0">>)
\* `later` is the call after `earlier`.  Nothing changed between them: the
\* same path.  The path the earlier one returned was created between them:
\* another path, of a larger numeric suffix.
CallsAgree(earlier, later) ==
  /\ earlier.path # <<>> /\ later.files = earlier.files => later.path = earlier.path
  /\ /\ earlier.path # <<>>
     /\ earlier.path[1] \notin earlier.files
     /\ later.files = earlier.files \cup {earlier.path[1]}
     => /\ later.path # <<>>
        /\ later.path # earlier.path
        /\ NumberLess(NumericSuffix(earlier.path[1]), NumericSuffix(later.path[1]))

\* C32: two consecutive calls with the same base against an unchanged file
\* system return the same path; once the first result has been created, a
\* further call returns a different path, of a larger numeric suffix.
C32_SameUntilCreatedThenLarger ==
  \A i \in 1..(Len(resolved) - 1) : CallsAgree(resolved[i], resolved[i + 1])

\* The "(N)" a stem ends in, read as text: what stands before it and the
\* number N, or the whole stem and None if it ends in none.
TextSuffixAt(stem, without_close, open_index) ==
  IF /\ open_index > 1
     /\ open_index < Len(without_close)
     /\ AllIn(From(without_close, open_index + 1), AsciiDigit)
  THEN [before |-> SubSeq(without_close, 1, open_index - 1),
        number |-> <<Canonical(From(without_close, open_index + 1))>>]
  ELSE [before |-> stem, number |-> <<>>]
TextSuffix(stem) ==
  IF stem # <<>> /\ stem[Len(stem)] = ")"
  THEN TextSuffixAt(stem, SubSeq(stem, 1, Len(stem) - 1), rfind(SubSeq(stem, 1, Len(stem) - 1), "("))
  ELSE [before |-> stem, number |-> <<>>]
\* The number k steps after `number`.
RECURSIVE NumberAfter(_, _)
NumberAfter(number, k) == IF k = 0 THEN number ELSE NumberAfter(Successor(number), k - 1)
NumberedPath(base, before, number) ==
  CandidatePath(parent(base), before, ExtensionText(base), number)
\* The call returned the numbered path of the smallest number from `first`
\* on that names no file.
ReturnsSmallestFrom(base, before, first, call) ==
  /\ call.path # <<>>
  /\ \E k \in 0..Cardinality(call.files) :
       /\ call.path[1] = NumberedPath(base, before, NumberAfter(first, k))
       /\ call.path[1] \notin call.files
       /\ \A j \in 0..(k - 1) : NumberedPath(base, before, NumberAfter(first, j)) \in call.files
ReturnsNextNumber(base, suffix, call) ==
  ReturnsSmallestFrom(base, suffix.before,
                      IF suffix.number = <<>> THEN <<"1">> ELSE Successor(suffix.number[1]),
                      call)

\* C33: when base exists and its stem ends in "(N)", the call returns
\* <stem-without-suffix>(M)<.ext> for the smallest M >= N+1 whose path does
\* not exist; when the stem has no such suffix, <stem>(M)<.ext> for the
\* smallest M >= 1 whose path does not exist.
C33_SearchStartsAfterSuffix ==
  \A i \in 1..Len(resolved) :
    requested["editor"] \in resolved[i].files =>
      ReturnsNextNumber(requested["editor"], TextSuffix(file_stem(requested["editor"])),
                        resolved[i])

\* A job starts in slot s in this step.
JobStarts(s) == running[s] = None /\ running'[s] # None

\* C34: the output path handed to a job is worked out by
\* next_available_output_path in the step that starts the job, from the
\* files that exist then: it names no existing file, whatever was created or
\* removed since the form was filled in.
C34_OutputPathResolvedAtStart ==
  [][\A s \in JobSlots :
       JobStarts(s) =>
         /\ running'[s].output_path \notin disk
         /\ <<running'[s].output_path>> = next_available_output_path(requested[s], disk)]_vars
\* Both the path the editor's form asks for and its first numbered path were
\* created before the export started: the job got the second numbered path.
C34_Witness ==
  /\ running["editor"] # None
  /\ proc["editor"].state = "alive"
  /\ requested["editor"] \in disk
  /\ Cardinality(disk) >= 2
  /\ running["editor"].output_path \notin ComingPaths
  /\ running["editor"].output_path \notin disk

\* The non-empty trimmed lines of the stderr received from the job of slot s.
StderrCandidates(s) == trimmed_lines(Utf8Lossy(shown[s].raw["stderr"]))
UnknownError(s) == IF s = "editor" THEN UNKNOWN_FFMPEG_ERROR ELSE UNKNOWN_YT_DLP_ERROR
JobFailed(s) == shown[s].job = "finished" /\ shown[s].detail # <<>>
\* The summary as stated: the last candidate; a lone "Conversion failed!" is
\* no candidate; the slot's fixed text when there is none.
LastCandidate(candidates, unknown) ==
  IF candidates = <<>> \/ candidates = <<CONVERSION_FAILED>> THEN unknown
  ELSE candidates[Len(candidates)]

\* C35 as stated: the summary of a failed job is the last non-empty trimmed
\* line of its stderr, "Conversion failed!" is skipped when it is the only
\* such line, and without such a line the summary is the fixed text.
C35_SummaryIsLastLine ==
  \A s \in JobSlots :
    JobFailed(s) => shown[s].detail[1] = LastCandidate(StderrCandidates(s), UnknownError(s))

\* C35: the summary of a failed ffmpeg job is the last non-empty trimmed line
\* of its stderr that is not "Conversion failed!", that of a failed yt-dlp job
\* is the last non-empty trimmed line whatever it says, and without such a
\* line the summary is the tool's fixed "unknown ... error" text.
C35_SummaryIsLastOtherLine ==
  \A s \in JobSlots :
    JobFailed(s) =>
      shown[s].detail[1] =
        IF s = "editor"
        THEN LET others == SelectSeq(StderrCandidates(s), LAMBDA line : line # CONVERSION_FAILED)
             IN IF others = <<>> THEN UNKNOWN_FFMPEG_ERROR ELSE others[Len(others)]
        ELSE IF StderrCandidates(s) = <<>> THEN UNKNOWN_YT_DLP_ERROR
        ELSE StderrCandidates(s)[Len(StderrCandidates(s))]

\* A failed ffmpeg job whose stderr ends with "Conversion failed!" after
\* another line, summarized by that other line.
C35_Witness ==
  /\ JobFailed("editor")
  /\ Len(StderrCandidates("editor")) = 2
  /\ StderrCandidates("editor")[2] = CONVERSION_FAILED
  /\ shown["editor"].detail = <<ErrorLine>>

\* The places of a stream's bytes at which a run of bytes other than the two
\* delimiters begins, and the run after the last delimiter.
RunStarts(bytes) ==
  {i \in 1..Len(bytes) : ~IsDelimiter(bytes[i]) /\ (i = 1 \/ IsDelimiter(bytes[i - 1]))}
LastDelimiter(bytes) == MaxOf({0} \cup {i \in 1..Len(bytes) : IsDelimiter(bytes[i])})
OpenRun(bytes) == From(bytes, LastDelimiter(bytes) + 1)

\* C36: pending holds exactly the bytes received after the last delimiter, no
\* line of a stream in the ToolOutput is empty, and the stream has as many
\* lines as its received bytes have non-empty runs between delimiters, the
\* run after the last delimiter counting once the job's tail was flushed.
C36_OneLinePerNonEmptyRun ==
  \A s \in JobSlots : \A st \in Streams :
    shown[s].job # "none" =>
      LET raw == RawOf(s)[st]
          emitted == StreamText(output[s], st)
          open == IF ~shown[s].flushed /\ OpenRun(raw) # <<>> THEN 1 ELSE 0
      IN /\ running[s] # None => running[s].pending[st] = OpenRun(raw)
         /\ \A i \in 1..Len(emitted) : emitted[i] # <<>>
         /\ Len(emitted) = Cardinality(RunStarts(raw)) - open

\* C36: a stream of the byte "a" followed by CR LF has given one line, and a
\* stream of two delimiters alone has given none.
C36_Witness ==
  /\ \E s \in JobSlots : \E st \in Streams :
        /\ RawOf(s)[st] \in {<<97, 13, 10>>, <<97, 10, 10>>}
        /\ StreamText(output[s], st) = <<(<<97>>)>>

\* C37: whatever operations of the ToolOutput were called and in whatever
\* order, scroll is the index of one of its lines whenever it has lines.
C37_ScrollIsLineIndex ==
  \A s \in JobSlots :
    output[s].lines # <<>> => output[s].scroll < Len(output[s].lines)

\* The state with the two downloader slots empty.
DownloaderIdle(S) == [S EXCEPT !.probe = None, !.running["downloader"] = None]
\* run_editor_export gives the encoder slot, the ffmpeg ToolOutput and the
\* status message it would give with no probe and no download running.
EditorStartsRegardless ==
  \A form_valid, spawn_ok, log_ok \in BOOLEAN :
    LET here == run_editor_export(Cur, available["editor"], form_valid, spawn_ok, log_ok)
        alone == run_editor_export(DownloaderIdle(Cur), available["editor"], form_valid,
                                   spawn_ok, log_ok)
    IN /\ here.running["editor"] = alone.running["editor"]
       /\ here.output["editor"] = alone.output["editor"]
       /\ here.status_message = alone.status_message
       /\ here.running["downloader"] = running["downloader"]
       /\ here.probe = running_downloader_probe

\* C38: the probe slot and the download slot are never both occupied; Enter
\* in the Downloader form while either is occupied starts nothing and only
\* sets the status message; and run_editor_export does to the encoder slot
\* what it does when both are empty, and leaves both as they are.
C38_ProbeAndDownloadExclusive ==
  [][/\ ~(running_downloader_probe' # None /\ running'["downloader"] # None)
     /\ (DownloaderPressEnter /\ running_downloader_probe # None) =>
          /\ status_message' = "Still fetching quality options. Please wait."
          /\ effects' = {}
          /\ UNCHANGED AllButStatus
     /\ (DownloaderPressEnter /\ running["downloader"] # None) =>
          /\ status_message' = "Downloader is already running. Wait for it to finish."
          /\ effects' = {}
          /\ UNCHANGED AllButStatus
     /\ EditorStartsRegardless]_vars

\* C38: the encoder is running, the probe is outstanding, and a second Enter
\* in the Downloader form has just been refused.
C38_Witness ==
  /\ running["editor"] # None
  /\ running_downloader_probe # None
  /\ running["downloader"] = None
  /\ status_message = "Still fetching quality options. Please wait."

\* The encoder was started while the download was running.
C38_EncoderStartedDuringDownload ==
  /\ running["editor"] # None
  /\ running["downloader"] # None
  /\ status_message = "Running ffmpeg -> <path>"

\* What the probe's receiver holds for the next try_recv: a result, the
\* disconnect of a sender dropped with nothing sent, or nothing yet.
ProbeAnswered == probe_chan # <<>> \/ probe_thread = "done"
ProbeSucceeded == probe_chan # <<>> /\ Head(probe_chan).ok
ProbeError ==
  IF probe_chan # <<>> THEN Head(probe_chan).error
  ELSE "Failed to receive quality options from probe thread."

C39_ProbeSucceeded ==
  /\ running_downloader_probe = None
  /\ probes = 1
  /\ downloader_step = "QualitySelect"
  /\ status_message = "Loaded <total> video quality options."
  /\ downloader_quality_choices = ProbeSuccess.choices
  /\ downloader_quality_index = 0

\* C40: the cancel dialog opens only by the cancel key, for the tool of the
\* right tab and while that tool's Job is in its slot; it closes only by the
\* confirm or the dismiss, and each of the two closes it; and a confirm made
\* when the Job has gone from its slot sends no kill, writes to no ToolOutput
\* and leaves the slots and the children as they are.
C40_CancelDialogFollowsJob ==
  [][/\ (pending_cancel = <<>> /\ pending_cancel' # <<>>) =>
          /\ RequestCancelForFocusedTool
          /\ pending_cancel' = <<right_tab>>
          /\ running[SlotOfTab(right_tab)] # None
     /\ (pending_cancel # <<>> /\ pending_cancel' # pending_cancel) =>
          (ConfirmPendingCancel \/ CancelPendingCancel)
     /\ (ConfirmPendingCancel \/ CancelPendingCancel) => pending_cancel' = <<>>
     /\ (ConfirmPendingCancel /\ running[SlotOfTab(pending_cancel[1])] = None) =>
          /\ "kill" \notin effects'
          /\ UNCHANGED <<kills, output, running, running_downloader_probe, proc>>]_vars

\* C40: the cancel of the download was asked for while its job ran, the tick
\* finalized the job, and the confirm then found the slot free: no kill was
\* sent and the ToolOutput has no line of a cancel.
C40_Witness ==
  /\ pending_cancel = <<>>
  /\ effects = {"cancel"}
  /\ status_message = "No running downloader job to cancel."
  /\ proc["downloader"] = NoProc
  /\ shown["downloader"].job = "finished"
  /\ CancelLines(output["downloader"]) = 0
  /\ kills = 0
====
